---- MODULE Spec2Model ----
(***************************************************************************)
(* A model of the MJML serialiser of the email builder                     *)
(* (src/services/mjmlService.ts): the document tree, hidden filtering,     *)
(* head/body partitioning, attribute merging, node rendering and the       *)
(* automatic injection of mj-font declarations.                            *)
(*                                                                         *)
(* Strings are TLA+ strings; a character is a string of length one.        *)
(* A node (MJElement) is a record                                          *)
(*   [id, type, attributes, content, hasChildren, children, hidden, label] *)
(* where attributes is the insertion-ordered list of [k, v] pairs of the   *)
(* JavaScript object, content = "" stands for an absent or empty content   *)
(* (the code reads it as el.content ?? '' and drops falsy values),         *)
(* hasChildren tells whether the children field is present (an empty array *)
(* is truthy in JavaScript), hidden = FALSE stands for absent or false and *)
(* label = "" for an absent label.                                         *)
(***************************************************************************)
EXTENDS Integers, Sequences, FiniteSets, TLC

VARIABLES
    elements,       \* the tree handed to generateMJML (the editor's elements)
    out,            \* the string the last call of generateMJML returned
    fontsUsed,      \* the usedFonts of the last call, in the Set's iteration order
    autoFonts,      \* the autoFontLines of the last call
    pc,             \* "ready" before the call, "done" after it
    selectedId,     \* the editor's selection ("" stands for null)
    nextId,         \* the number of ids drawn so far, plus one
    call,           \* the handler call under study and its arguments (<< >>: none)
    tab,            \* PreviewPanel: the tab shown
    compile,        \* PreviewPanel: the compile state
    requests,       \* the requests to /api/compile-mjml that are in flight
    exported,       \* what handleExportHtml last wrote to the clipboard (<< >>: nothing)
    isSendCompiling,    \* App: the send button is waiting for the compiler
    showSendEmail,      \* App: the send modal is open
    sendHtml            \* App: the HTML handed to the send modal

vars == <<elements, out, fontsUsed, autoFonts, pc, selectedId, nextId, call,
          tab, compile, requests, exported, isSendCompiling, showSendEmail, sendHtml>>

\* the state of the preview panel and of the send button
panelVars == <<tab, compile, requests, exported, isSendCompiling, showSendEmail, sendHtml>>

-----------------------------------------------------------------------------
(* Bounds of the model                                                     *)

MaxDepth == 2       \* nesting depth of the containers of the hidden-flag trees
MaxAttrs == 2       \* live attributes of a node of the attribute trees
MaxNodes == 2       \* nodes the editor adds in one session

-----------------------------------------------------------------------------
(* JavaScript string primitives                                            *)

CharAt(s, i) == SubSeq(s, i, i)

\* String.prototype.indexOf(c) for a one-character c, 1-based; 0 = not found
IndexOf(s, c) ==
    IF \E i \in 1..Len(s) : CharAt(s, i) = c
    THEN CHOOSE i \in 1..Len(s) :
            /\ CharAt(s, i) = c
            /\ \A j \in 1..(i - 1) : CharAt(s, j) # c
    ELSE 0

\* a variant of Includes that never finds the needle
Includes_never(s, c) == FALSE

\* String.prototype.includes for a one-character needle
Includes(s, c) == \E i \in 1..Len(s) : CharAt(s, i) = c

\* s.split(sep)[0] for a one-character separator
SplitFirst(s, sep) ==
    LET i == IndexOf(s, sep)
    IN  IF i = 0 THEN s ELSE SubSeq(s, 1, i - 1)

IsWhiteSpace(c) == c \in {" ", "\t", "\n", "\r", "\f"}

RECURSIVE TrimStart(_)
TrimStart(s) ==
    IF s # "" /\ IsWhiteSpace(Head(s)) THEN TrimStart(Tail(s)) ELSE s

RECURSIVE TrimEnd(_)
TrimEnd(s) ==
    IF s # "" /\ IsWhiteSpace(CharAt(s, Len(s)))
    THEN TrimEnd(SubSeq(s, 1, Len(s) - 1))
    ELSE s

\* String.prototype.trim
Trim(s) == TrimEnd(TrimStart(s))

LowerChar(c) ==
    CASE c = "A" -> "a" [] c = "B" -> "b" [] c = "C" -> "c" [] c = "D" -> "d"
      [] c = "E" -> "e" [] c = "F" -> "f" [] c = "G" -> "g" [] c = "H" -> "h"
      [] c = "I" -> "i" [] c = "J" -> "j" [] c = "K" -> "k" [] c = "L" -> "l"
      [] c = "M" -> "m" [] c = "N" -> "n" [] c = "O" -> "o" [] c = "P" -> "p"
      [] c = "Q" -> "q" [] c = "R" -> "r" [] c = "S" -> "s" [] c = "T" -> "t"
      [] c = "U" -> "u" [] c = "V" -> "v" [] c = "W" -> "w" [] c = "X" -> "x"
      [] c = "Y" -> "y" [] c = "Z" -> "z" [] OTHER -> c

RECURSIVE ToLowerCase(_)
\* String.prototype.toLowerCase
ToLowerCase(s) ==
    IF s = "" THEN "" ELSE LowerChar(Head(s)) \o ToLowerCase(Tail(s))

RECURSIVE ReplaceAllChar(_, _, _)
\* s.replace(/c/g, r) for a one-character c
ReplaceAllChar(s, c, r) ==
    IF s = "" THEN ""
    ELSE (IF Head(s) = c THEN r ELSE Head(s)) \o ReplaceAllChar(Tail(s), c, r)

RECURSIVE Join(_, _)
\* Array.prototype.join
Join(strs, sep) ==
    IF Len(strs) = 0 THEN ""
    ELSE IF Len(strs) = 1 THEN strs[1]
    ELSE strs[1] \o sep \o Join(Tail(strs), sep)

\* arr.filter(Boolean) on an array of strings: the empty string is falsy
FilterBoolean(strs) == SelectSeq(strs, LAMBDA s : s # "")

-----------------------------------------------------------------------------
(* Static tables of mjmlService.ts                                         *)

HEAD_TYPES ==
    { "mj-attributes", "mj-breakpoint", "mj-font", "mj-html-attributes",
      "mj-preview", "mj-style", "mj-title" }

SELF_CLOSING ==
    { "mj-breakpoint", "mj-font", "mj-image", "mj-divider", "mj-spacer",
      "mj-carousel-image", "mj-html-attributes" }

SYSTEM_FONTS ==
    { "arial", "helvetica", "helvetica neue", "verdana", "tahoma", "trebuchet ms",
      "times new roman", "georgia", "garamond", "courier new", "courier",
      "palatino", "book antiqua", "impact", "comic sans ms", "lucida sans",
      "lucida grande", "sans-serif", "serif", "monospace", "cursive", "fantasy" }

DEFAULT_GOOGLE_FONTS ==
    << [ name |-> "Inter",
         url  |-> "https://fonts.googleapis.com/css2?family=Inter:wght@300;400;500;700&display=swap" ] >>

\* The component registry (constants.ts): one entry per registered type.
MJML_COMPONENTS ==
    << [ type |-> "mj-section", isContainer |-> TRUE, defaultContent |-> "",
         defaultAttrs |-> << [k |-> "padding", v |-> "20px"],
                             [k |-> "background-color", v |-> "#fff"] >> ],
       [ type |-> "mj-column", isContainer |-> TRUE, defaultContent |-> "",
         defaultAttrs |-> << >> ],
       [ type |-> "mj-text", isContainer |-> FALSE, defaultContent |-> "Text",
         defaultAttrs |-> << [k |-> "padding", v |-> "10px"],
                             [k |-> "color", v |-> "#000"] >> ],
       [ type |-> "mj-image", isContainer |-> FALSE, defaultContent |-> "",
         defaultAttrs |-> << [k |-> "padding", v |-> "0"],
                             [k |-> "color", v |-> ""] >> ],
       [ type |-> "mj-font", isContainer |-> FALSE, defaultContent |-> "",
         defaultAttrs |-> << [k |-> "name", v |-> ""],
                             [k |-> "href", v |-> ""] >> ],
       [ type |-> "mj-title", isContainer |-> FALSE, defaultContent |-> "Title",
         defaultAttrs |-> << >> ],
       [ type |-> "mj-button", isContainer |-> FALSE, defaultContent |-> "Button",
         defaultAttrs |-> << [k |-> "font-family", v |-> "Ubuntu, Arial"] >> ] >>

-----------------------------------------------------------------------------
(* Attribute objects: insertion-ordered lists of [k, v] pairs              *)

HasKey(attrs, key) == \E i \in 1..Len(attrs) : attrs[i].k = key

\* attrs[key], with "" standing for undefined (both are falsy where it is read)
GetAttr(attrs, key) ==
    IF HasKey(attrs, key)
    THEN attrs[CHOOSE i \in 1..Len(attrs) : attrs[i].k = key].v
    ELSE ""

\* obj[key] = value: an existing key keeps its position, a new key is appended
SetAttr(attrs, key, value) ==
    IF HasKey(attrs, key)
    THEN [i \in 1..Len(attrs) |->
            IF attrs[i].k = key THEN [k |-> key, v |-> value] ELSE attrs[i]]
    ELSE Append(attrs, [k |-> key, v |-> value])

RECURSIVE Spread(_, _)
\* { ...base, ...over }
Spread(base, over) ==
    IF Len(over) = 0 THEN base
    ELSE Spread(SetAttr(base, over[1].k, over[1].v), Tail(over))

-----------------------------------------------------------------------------
(* Font helpers                                                            *)

IsQuote(c) == c \in {"\"", "'"}

\* s.replace(/^["']|["']$/g, ''): the global replace removes a quote matched at
\* the start and then, in what follows that match, a quote matched at the end.
StripQuotes(s) ==
    LET t == IF s # "" /\ IsQuote(Head(s)) THEN Tail(s) ELSE s
    IN  IF t # "" /\ IsQuote(CharAt(t, Len(t)))
        THEN SubSeq(t, 1, Len(t) - 1)
        ELSE t

\* a variant of PrimaryFont that does not trim the token
PrimaryFont_noTrim(ff) == StripQuotes(SplitFirst(ff, ","))

\* ff.split(',')[0].trim().replace(/^["']|["']$/g, '')
PrimaryFont(ff) == StripQuotes(Trim(SplitFirst(ff, ",")))

\* Set.prototype.add on a Set kept in insertion order
SetAdd(seq, x) ==
    IF \E i \in 1..Len(seq) : seq[i] = x THEN seq ELSE Append(seq, x)

RECURSIVE walk_childrenLast(_, _)
\* a variant of walk that visits the siblings of a node before the node's children
walk_childrenLast(els, fonts) ==
    IF Len(els) = 0 THEN fonts
    ELSE
        LET el      == els[1]
            ff      == GetAttr(el.attributes, "font-family")
            primary == PrimaryFont(ff)
            f1      == IF ff # "" /\ primary # "" THEN SetAdd(fonts, primary) ELSE fonts
            f2      == walk_childrenLast(Tail(els), f1)
        IN  IF el.hasChildren THEN walk_childrenLast(el.children, f2) ELSE f2

RECURSIVE walk(_, _)
\* collectFontsFromElements.walk: els is visited left to right, each node before
\* its children; fonts is the Set built so far
walk(els, fonts) ==
    IF Len(els) = 0 THEN fonts
    ELSE
        LET el      == els[1]
            ff      == GetAttr(el.attributes, "font-family")
            primary == PrimaryFont(ff)
            f1      == IF ff # "" /\ primary # "" THEN SetAdd(fonts, primary) ELSE fonts
            f2      == IF el.hasChildren THEN walk(el.children, f1) ELSE f1
        IN  walk(Tail(els), f2)

collectFontsFromElements(els) == walk(els, << >>)

googleFontsUrl(fontName) ==
    "https://fonts.googleapis.com/css?family="
        \o ReplaceAllChar(Trim(fontName), " ", "+")
        \o ":300,400,500,700"

\* a variant of declaredFontNames that keeps the names as they are written
declaredFontNames_asWritten(fontEls) ==
    { ToLowerCase(GetAttr(fontEls[i].attributes, "name")) :
        i \in { j \in 1..Len(fontEls) : GetAttr(fontEls[j].attributes, "name") # "" } }

declaredFontNames(fontEls) ==
    { ToLowerCase(Trim(GetAttr(fontEls[i].attributes, "name"))) :
        i \in { j \in 1..Len(fontEls) : GetAttr(fontEls[j].attributes, "name") # "" } }

-----------------------------------------------------------------------------
(* generateMJML                                                            *)

\* a variant of stripHidden that filters the list it is given and not the children
stripHidden_topLevelOnly(els) == SelectSeq(els, LAMBDA el : ~el.hidden)

RECURSIVE stripHidden(_)
stripHidden(els) ==
    LET kept == SelectSeq(els, LAMBDA el : ~el.hidden)
    IN  [i \in 1..Len(kept) |->
            IF kept[i].hasChildren
            THEN [kept[i] EXCEPT !.children = stripHidden(kept[i].children)]
            ELSE kept[i]]

\* a variant of defaultAttrsOf that falls back on the first entry of the registry
defaultAttrsOf_firstEntry(type) ==
    MJML_COMPONENTS[IF \E i \in 1..Len(MJML_COMPONENTS) : MJML_COMPONENTS[i].type = type
                    THEN CHOOSE i \in 1..Len(MJML_COMPONENTS) : MJML_COMPONENTS[i].type = type
                    ELSE 1].defaultAttrs

\* MJML_COMPONENTS.find(c => c.type === el.type)?.defaultAttrs ?? {}
defaultAttrsOf(type) ==
    IF \E i \in 1..Len(MJML_COMPONENTS) : MJML_COMPONENTS[i].type = type
    THEN MJML_COMPONENTS[CHOOSE i \in 1..Len(MJML_COMPONENTS) :
                            MJML_COMPONENTS[i].type = type].defaultAttrs
    ELSE << >>

\* a variant of mergedAttributes in which the defaults are spread last
mergedAttributes_defaultsWin(el) == Spread(el.attributes, defaultAttrsOf(el.type))

\* a variant of mergedAttributes that drops the blank live values before merging
mergedAttributes_blankDroppedFirst(el) ==
    Spread(defaultAttrsOf(el.type), SelectSeq(el.attributes, LAMBDA a : a.v # ""))

mergedAttributes(el) == Spread(defaultAttrsOf(el.type), el.attributes)

\* Object.entries(mergedAttributes).filter(([, v]) => v !== '')
emittedAttrs(el) == SelectSeq(mergedAttributes(el), LAMBDA a : a.v # "")

attrStrOf(el) ==
    LET pairs == emittedAttrs(el)
        attrs == Join([i \in 1..Len(pairs) |->
                          pairs[i].k \o "=\"" \o pairs[i].v \o "\""], " ")
    IN  IF attrs # "" THEN " " \o attrs ELSE ""

\* a variant of isSelfClosing that treats a node with content or children as open
isSelfClosing_unlessPopulated(el) ==
    el.type \in SELF_CLOSING /\ el.content = "" /\ ~el.hasChildren

isSelfClosing(el) == el.type \in SELF_CLOSING

RECURSIVE renderEl_childrenReversed(_, _)
\* a variant of renderEl that renders the children from the last to the first
renderEl_childrenReversed(el, indent) ==
    LET attrStr == attrStrOf(el)
    IN  IF isSelfClosing(el)
        THEN indent \o "<" \o el.type \o attrStr \o " />"
        ELSE
            LET n == IF el.hasChildren THEN Len(el.children) ELSE 0
                children ==
                    Join([i \in 1..n |->
                            renderEl_childrenReversed(el.children[n + 1 - i], indent \o "  ")],
                         "\n")
                inner   == Join(FilterBoolean(<<el.content, children>>), "\n")
            IN  IF inner = ""
                THEN indent \o "<" \o el.type \o attrStr \o "></" \o el.type \o ">"
                ELSE IF Includes(inner, "\n")
                THEN indent \o "<" \o el.type \o attrStr \o ">\n" \o inner \o "\n"
                        \o indent \o "</" \o el.type \o ">"
                ELSE indent \o "<" \o el.type \o attrStr \o ">" \o inner
                        \o "</" \o el.type \o ">"

RECURSIVE renderEl(_, _)
renderEl(el, indent) ==
    LET attrStr == attrStrOf(el)
    IN  IF isSelfClosing(el)
        THEN indent \o "<" \o el.type \o attrStr \o " />"
        ELSE
            LET children ==
                    IF el.hasChildren
                    THEN Join([i \in 1..Len(el.children) |->
                                 renderEl(el.children[i], indent \o "  ")], "\n")
                    ELSE ""
                content == el.content
                inner   == Join(FilterBoolean(<<content, children>>), "\n")
            IN  IF inner = ""
                THEN indent \o "<" \o el.type \o attrStr \o "></" \o el.type \o ">"
                ELSE IF Includes(inner, "\n")
                THEN indent \o "<" \o el.type \o attrStr \o ">\n" \o inner \o "\n"
                        \o indent \o "</" \o el.type \o ">"
                ELSE indent \o "<" \o el.type \o attrStr \o ">" \o inner
                        \o "</" \o el.type \o ">"

visibleOf(els) == stripHidden(els)
headElsOf(els) == SelectSeq(visibleOf(els), LAMBDA el : el.type \in HEAD_TYPES)
bodyElsOf(els) == SelectSeq(visibleOf(els), LAMBDA el : el.type \notin HEAD_TYPES)
\* a variant of manualFontElsOf that takes the hidden mj-font nodes too
manualFontElsOf_withHidden(els) == SelectSeq(els, LAMBDA el : el.type = "mj-font")
manualFontElsOf(els) == SelectSeq(headElsOf(els), LAMBDA el : el.type = "mj-font")

\* a variant of injectDefaults that marks the defaults declared without a line
injectDefaults_markedOnly(defaults, lines, declared) ==
    [ lines |-> lines,
      declared |-> declared \cup { ToLowerCase(defaults[i].name) : i \in 1..Len(defaults) } ]

RECURSIVE injectDefaults(_, _, _)
\* step 1: the loop over DEFAULT_GOOGLE_FONTS; the result is the pair of
\* autoFontLines and alreadyDeclared after the loop
injectDefaults(defaults, lines, declared) ==
    IF Len(defaults) = 0 THEN [lines |-> lines, declared |-> declared]
    ELSE
        LET d == defaults[1]
        IN  IF ToLowerCase(d.name) \notin declared
            THEN injectDefaults(Tail(defaults),
                    Append(lines, "    <mj-font name=\"" \o d.name \o "\" href=\""
                                    \o d.url \o "\" />"),
                    declared \cup {ToLowerCase(d.name)})
            ELSE injectDefaults(Tail(defaults), lines, declared)

RECURSIVE injectUsed_caseSensitive(_, _, _)
\* a variant of injectUsed that looks the font up in SYSTEM_FONTS as it is written
injectUsed_caseSensitive(usedFonts, lines, declared) ==
    IF Len(usedFonts) = 0 THEN lines
    ELSE
        LET font == usedFonts[1]
        IN  IF font \in SYSTEM_FONTS \/ ToLowerCase(font) \in declared
            THEN injectUsed_caseSensitive(Tail(usedFonts), lines, declared)
            ELSE injectUsed_caseSensitive(Tail(usedFonts),
                    Append(lines, "    <mj-font name=\"" \o font \o "\" href=\""
                                    \o googleFontsUrl(font) \o "\" />"),
                    declared)

RECURSIVE injectUsed(_, _, _)
\* step 2: the loop over usedFonts; alreadyDeclared is not written in this loop
injectUsed(usedFonts, lines, declared) ==
    IF Len(usedFonts) = 0 THEN lines
    ELSE
        LET font == usedFonts[1]
        IN  IF ToLowerCase(font) \in SYSTEM_FONTS
            THEN injectUsed(Tail(usedFonts), lines, declared)
            ELSE IF ToLowerCase(font) \in declared
            THEN injectUsed(Tail(usedFonts), lines, declared)
            ELSE injectUsed(Tail(usedFonts),
                    Append(lines, "    <mj-font name=\"" \o font \o "\" href=\""
                                    \o googleFontsUrl(font) \o "\" />"),
                    declared)

autoFontLinesOf(els) ==
    LET alreadyDeclared == declaredFontNames(manualFontElsOf(els))
        step1           == injectDefaults(DEFAULT_GOOGLE_FONTS, << >>, alreadyDeclared)
        usedFonts       == collectFontsFromElements(bodyElsOf(els))
    IN  injectUsed(usedFonts, step1.lines, step1.declared)

generateMJML(els) ==
    LET headEls         == headElsOf(els)
        bodyEls         == bodyElsOf(els)
        manualHeadLines == Join([i \in 1..Len(headEls) |-> renderEl(headEls[i], "    ")], "\n")
        autoFontBlock   == Join(autoFontLinesOf(els), "\n")
        headContent     == Join(FilterBoolean(<<manualHeadLines, autoFontBlock>>), "\n")
        headBlock       == IF headContent # ""
                           THEN "  <mj-head>\n" \o headContent \o "\n  </mj-head>"
                           ELSE ""
        bodyBlock       == "  <mj-body>\n"
                           \o Join([i \in 1..Len(bodyEls) |-> renderEl(bodyEls[i], "    ")], "\n")
                           \o "\n  </mj-body>"
        parts           == FilterBoolean(<<headBlock, bodyBlock>>)
    IN  "<mjml>\n" \o Join(parts, "\n") \o "\n</mjml>"

-----------------------------------------------------------------------------
(* The trees the serialiser is applied to                                  *)

Node(id, type, attributes, content, hasChildren, children, hidden) ==
    [ id |-> id, type |-> type, attributes |-> attributes, content |-> content,
      hasChildren |-> hasChildren, children |-> children, hidden |-> hidden,
      label |-> "" ]

Attr(key, value) == [k |-> key, v |-> value]

\* Trees of nested containers in which every node carries its id as css-class
\* and every combination of hidden flags occurs:
\*   container d = [ text d, container d-1 ], container 0 = a text
MarkedText(id, hidden) ==
    Node(id, "mj-text", <<Attr("css-class", id)>>, "Hello", FALSE, << >>, hidden)

RECURSIVE Nested(_)
Nested(d) ==
    IF d = 0 THEN { MarkedText("t0", h) : h \in BOOLEAN }
    ELSE { Node("c" \o ToString(d),
                IF d % 2 = 0 THEN "mj-section" ELSE "mj-column",
                <<Attr("css-class", "c" \o ToString(d))>>, "", TRUE,
                <<leaf, sub>>, h) :
             leaf \in { MarkedText("t" \o ToString(d), lh) : lh \in BOOLEAN },
             sub \in Nested(d - 1),
             h \in BOOLEAN }

HiddenTrees == { <<n>> : n \in Nested(MaxDepth) }

\* Single nodes with every list of at most MaxAttrs live attributes
AttrKeys == {"padding", "color", "css-class"}
AttrVals == {"", "red"}

RECURSIVE AttrLists(_)
AttrLists(n) ==
    IF n = 0 THEN { << >> }
    ELSE LET shorter == AttrLists(n - 1)
         IN  shorter \cup
             { Append(l, Attr(key, val)) :
                 l \in { x \in shorter : Len(x) = n - 1 },
                 key \in AttrKeys, val \in AttrVals }

DistinctKeys(l) == \A i, j \in 1..Len(l) : l[i].k = l[j].k => i = j

Kid == Node("k1", "mj-text", << >>, "Kid", FALSE, << >>, FALSE)

\* [type, hasChildren, children]: mj-legacy is a type the registry does not know
AttrShapes ==
    { <<"mj-text", FALSE, << >> >>, <<"mj-legacy", FALSE, << >> >>,
      <<"mj-button", FALSE, << >> >>,
      <<"mj-image", FALSE, << >> >>, <<"mj-image", TRUE, <<Kid>> >>,
      <<"mj-section", TRUE, << >> >>, <<"mj-section", TRUE, <<Kid>> >> }

AttrTrees ==
    { << Node("a1", sh[1], l, c, sh[2], sh[3], FALSE) >> :
        sh \in AttrShapes,
        l \in { x \in AttrLists(MaxAttrs) : DistinctKeys(x) },
        c \in {"", "Hello", "Hi\nyou"} }

\* Manual mj-font nodes in the head and font-family values in the body
FontFamilies ==
    { "", "Arial", "ARIAL", "arial, sans-serif", "Georgia", "Helvetica Neue",
      "\"Open Sans\", Arial, sans-serif", "'Open Sans'", "OPEN SANS",
      "Roboto", "\" Roboto\"", "\"Roboto", "\"", "  Lato  , serif", " ", "Inter" }

FontNode(id, name, hidden) ==
    Node(id, "mj-font", <<Attr("name", name), Attr("href", "https://f.example/css")>>,
         "", FALSE, << >>, hidden)

ManualFonts ==
    { << >>, << FontNode("f1", "Open Sans", FALSE), FontNode("f2", "Open Sans", FALSE) >> }
    \cup { << FontNode("f1", name, h) >> :
             name \in {"Open Sans", "open sans", "Inter", " Roboto", "", "Lato ", " inter "},
             h \in BOOLEAN }

FontText(id, ff, hidden) ==
    Node(id, "mj-text", <<Attr("font-family", ff)>>, "Hello", FALSE, << >>, hidden)

PlainText(id) == Node(id, "mj-text", << >>, "Hello", FALSE, << >>, FALSE)

\* the body of a font tree: the text using the font at the top level or inside
\* a section and a column, followed by a second text
FontBodies ==
    { body \o second :
        body \in { << FontText("b1", ff, h) >> : ff \in FontFamilies, h \in BOOLEAN }
            \cup { << Node("s1", "mj-section", << >>, "", TRUE,
                        << Node("c1", "mj-column", << >>, "", TRUE,
                               << FontText("b1", ff, h) >>, FALSE) >>, FALSE) >> :
                     ff \in FontFamilies, h \in BOOLEAN },
        second \in { << PlainText("b2") >> }
            \cup { << FontText("b2", ff, FALSE) >> : ff \in {"roboto", "Roboto"} } }

FontTrees == { head \o body : head \in ManualFonts, body \in FontBodies }

\* Trees in which the type of a node and the type of its top-level ancestor are
\* on different sides of HEAD_TYPES: a title or a style inside a section, and a
\* text inside mj-attributes
TitleNode(id) == Node(id, "mj-title", << >>, "Subject", FALSE, << >>, FALSE)
StyleNode(id) == Node(id, "mj-style", << >>, ".a { color: red }", FALSE, << >>, FALSE)

MisplacedTrees ==
    { head \o << Node("s1", "mj-section", << >>, "", TRUE, kids, FALSE) >> :
        head \in { << >>, << TitleNode("h0") >> },
        kids \in { << inner, PlainText("b1") >> : inner \in { TitleNode("h1"), StyleNode("h1"), FontNode("h1", "Inter", FALSE) } }
            \cup { << PlainText("b1"), inner >> : inner \in { TitleNode("h1"), StyleNode("h1"), FontNode("h1", "Inter", FALSE) } } }
    \cup { << Node("d1", "mj-attributes", << >>, "", TRUE, << PlainText("b1") >>, FALSE) >> \o body :
             body \in { << >>, << PlainText("b2") >> } }

\* Trees with two manual head nodes in either order and three uses of fonts in
\* the body: on a section, on a text inside it and on a text after it
OrderFonts == {"Roboto", "Lato", "Ubuntu"}

OrderTrees ==
    { head \o << Node("s1", "mj-section", <<Attr("font-family", fa)>>, "", TRUE,
                      << FontText("b1", fb, FALSE) >>, FALSE),
                 FontText("b2", fc, FALSE) >> :
        head \in { << TitleNode("h1"), FontNode("f1", "Open Sans", FALSE) >>,
                   << FontNode("f1", "Open Sans", FALSE), TitleNode("h1") >> },
        fa \in OrderFonts, fb \in OrderFonts, fc \in OrderFonts }

\* A section with content of its own, two texts and, between them, a column
\* holding a text
ContentTrees ==
    { << Node("s1", "mj-section", << >>, c, TRUE,
              << MarkedText("k1", FALSE),
                 Node("c1", "mj-column", << >>, "", TRUE, << MarkedText("k2", FALSE) >>, FALSE),
                 MarkedText("k3", FALSE) >>, FALSE) >> :
        c \in {"", "Intro", "Hi\nyou"} }

Trees ==
    { << >> } \cup HiddenTrees \cup AttrTrees \cup FontTrees \cup MisplacedTrees
        \cup OrderTrees \cup ContentTrees

-----------------------------------------------------------------------------
(* The state machine: a tree is chosen and generateMJML is called on it    *)

\* the preview panel as mounted on an empty tree, the send modal closed
InitPanel ==
    /\ tab = "view"
    /\ compile = [status |-> "idle", html |-> "", message |-> ""]
    /\ requests = {}
    /\ exported = << >>
    /\ isSendCompiling = FALSE
    /\ showSendEmail = FALSE
    /\ sendHtml = ""

Init ==
    /\ elements \in Trees
    /\ out = ""
    /\ fontsUsed = << >>
    /\ autoFonts = << >>
    /\ pc = "ready"
    /\ selectedId = ""
    /\ nextId = 1
    /\ call = << >>
    /\ InitPanel

\* a variant of Generate in which the hidden nodes are removed from the input itself
Generate_strippingInPlace ==
    /\ pc = "ready"
    /\ out' = generateMJML(elements)
    /\ fontsUsed' = collectFontsFromElements(bodyElsOf(elements))
    /\ autoFonts' = autoFontLinesOf(elements)
    /\ pc' = "done"
    /\ elements' = stripHidden(elements)
    /\ UNCHANGED <<selectedId, nextId, call, panelVars>>

\* const mjml = generateMJML(elements)
Generate ==
    /\ pc = "ready"
    /\ out' = generateMJML(elements)
    /\ fontsUsed' = collectFontsFromElements(bodyElsOf(elements))
    /\ autoFonts' = autoFontLinesOf(elements)
    /\ pc' = "done"
    /\ UNCHANGED <<elements, selectedId, nextId, call, panelVars>>

Next == Generate

Spec == Init /\ [][Next]_vars

-----------------------------------------------------------------------------
(* The editor: the handlers of App that write the tree                     *)

\* the registry entry of a registered type
configOf(type) ==
    MJML_COMPONENTS[CHOOSE i \in 1..Len(MJML_COMPONENTS) : MJML_COMPONENTS[i].type = type]

isRegistered(type) == \E i \in 1..Len(MJML_COMPONENTS) : MJML_COMPONENTS[i].type = type

\* MJML_COMPONENTS.find(c => c.type === el.type)?.isContainer ?? false
isContainerType(type) == isRegistered(type) /\ configOf(type).isContainer

RECURSIVE idsOf(_)
\* the ids of the nodes of a tree, in document order
idsOf(items) ==
    IF Len(items) = 0 THEN << >>
    ELSE <<items[1].id>>
            \o (IF items[1].hasChildren THEN idsOf(items[1].children) ELSE << >>)
            \o idsOf(Tail(items))

IdSet(items) == { idsOf(items)[i] : i \in 1..Len(idsOf(items)) }

RECURSIVE findSelected(_, _)
\* findSelected: the nodes with the id, the first of them being the one returned
findSelected(items, id) ==
    IF Len(items) = 0 THEN << >>
    ELSE (IF items[1].id = id THEN <<items[1]>>
          ELSE IF items[1].hasChildren THEN findSelected(items[1].children, id)
          ELSE << >>)
            \o findSelected(Tail(items), id)

\* the element handleAddComponent builds
newElement(type, id) ==
    [ id |-> id, type |-> type,
      content |-> configOf(type).defaultContent,
      attributes |-> configOf(type).defaultAttrs,
      hasChildren |-> configOf(type).isContainer, children |-> << >>,
      hidden |-> FALSE, label |-> "" ]

RECURSIVE addUnder(_, _, _)
\* handleAddComponent.up
addUnder(items, parentId, el) ==
    [ i \in 1..Len(items) |->
        IF items[i].id = parentId /\ items[i].hasChildren
        THEN [items[i] EXCEPT !.children = Append(@, el)]
        ELSE IF items[i].hasChildren
        THEN [items[i] EXCEPT !.children = addUnder(@, parentId, el)]
        ELSE items[i] ]

RECURSIVE replaceById(_, _)
\* handleUpdateElement.up
replaceById(items, updated) ==
    [ i \in 1..Len(items) |->
        IF items[i].id = updated.id THEN updated
        ELSE IF items[i].hasChildren
        THEN [items[i] EXCEPT !.children = replaceById(@, updated)]
        ELSE items[i] ]

\* a variant of rm that filters the top level only
rm_topLevelOnly(items, id) == SelectSeq(items, LAMBDA i : i.id # id)

RECURSIVE rm(_, _)
\* handleDeleteElement.rm
rm(items, id) ==
    LET kept == SelectSeq(items, LAMBDA i : i.id # id)
    IN  [ i \in 1..Len(kept) |->
            IF kept[i].hasChildren
            THEN [kept[i] EXCEPT !.children = rm(@, id)]
            ELSE kept[i] ]

\* a variant of extract that leaves the dragged node where it is
extract_keepingDragged(items, dragId) == items

RECURSIVE extract(_, _)
\* handleMoveInto.extract and handleReorder.extract: the tree without the nodes
\* with the id; below such a node nothing is searched
extract(items, dragId) ==
    IF Len(items) = 0 THEN << >>
    ELSE (IF items[1].id = dragId THEN << >>
          ELSE IF items[1].hasChildren
          THEN << [items[1] EXCEPT !.children = extract(@, dragId)] >>
          ELSE << items[1] >>)
            \o extract(Tail(items), dragId)

\* the value of dragged after extract: the last node met with the id, as a
\* sequence of one node, or the empty sequence for null
draggedOf(items, dragId) ==
    LET met == findSelected(items, dragId)
    IN  IF met = << >> THEN << >> ELSE << met[Len(met)] >>

RECURSIVE insertInto(_, _, _)
\* handleMoveInto.insert
insertInto(items, containerId, dragged) ==
    [ i \in 1..Len(items) |->
        IF items[i].id = containerId
        THEN [items[i] EXCEPT !.children = Append(@, dragged), !.hasChildren = TRUE]
        ELSE IF items[i].hasChildren
        THEN [items[i] EXCEPT !.children = insertInto(@, containerId, dragged)]
        ELSE items[i] ]

RECURSIVE insertBeside(_, _, _, _)
\* handleReorder.insert
insertBeside(items, targetId, position, dragged) ==
    IF Len(items) = 0 THEN << >>
    ELSE (IF items[1].id = targetId
          THEN (IF position = "before" THEN <<dragged, items[1]>> ELSE <<items[1], dragged>>)
          ELSE IF items[1].hasChildren
          THEN << [items[1] EXCEPT !.children = insertBeside(@, targetId, position, dragged)] >>
          ELSE << items[1] >>)
            \o insertBeside(Tail(items), targetId, position, dragged)

\* the updater of handleMoveInto
moveInto(prev, dragId, containerId) ==
    LET dragged == draggedOf(prev, dragId)
    IN  IF dragged = << >> THEN prev
        ELSE insertInto(extract(prev, dragId), containerId, dragged[1])

\* the updater of handleReorder
reorder(prev, dragId, targetId, position) ==
    LET dragged == draggedOf(prev, dragId)
    IN  IF dragged = << >> THEN prev
        ELSE insertBeside(extract(prev, dragId), targetId, position, dragged[1])

RECURSIVE holds(_, _)
\* findSiblings(id, items) is not null
holds(items, id) ==
    \E i \in 1..Len(items) :
        items[i].id = id \/ (items[i].hasChildren /\ holds(items[i].children, id))

\* a variant of the updater that swaps among the cards of the canvas only
moveById_topLevelOnly(items, id, direction) ==
    IF \E i \in 1..Len(items) : items[i].id = id
    THEN LET index   == CHOOSE i \in 1..Len(items) : items[i].id = id
             swapIdx == IF direction = "up" THEN index - 1 ELSE index + 1
         IN  IF swapIdx < 1 \/ swapIdx > Len(items) THEN items
             ELSE [items EXCEPT ![index] = items[swapIdx], ![swapIdx] = items[index]]
    ELSE items

RECURSIVE moveById(_, _, _)
\* the updater of handleMoveById and handleMoveSelected: findSiblings finds the
\* first array that holds the id, this level before the levels below, and patch
\* replaces that array by the one with the two neighbours swapped
moveById(items, id, direction) ==
    IF \E i \in 1..Len(items) : items[i].id = id
    THEN LET index   == CHOOSE i \in 1..Len(items) :
                            items[i].id = id /\ \A j \in 1..(i - 1) : items[j].id # id
             swapIdx == IF direction = "up" THEN index - 1 ELSE index + 1
         IN  IF swapIdx < 1 \/ swapIdx > Len(items) THEN items
             ELSE [items EXCEPT ![index] = items[swapIdx], ![swapIdx] = items[index]]
    ELSE LET holders == { i \in 1..Len(items) :
                            items[i].hasChildren /\ holds(items[i].children, id) }
         IN  IF holders = {} THEN items
             ELSE LET h == CHOOSE i \in holders : \A j \in holders : i <= j
                  IN  [items EXCEPT ![h].children = moveById(@, id, direction)]

RECURSIVE toggle_hideOnly(_, _)
\* a variant of toggle that sets the flag and never clears it
toggle_hideOnly(items, id) ==
    [ i \in 1..Len(items) |->
        IF items[i].id = id THEN [items[i] EXCEPT !.hidden = TRUE]
        ELSE IF items[i].hasChildren
        THEN [items[i] EXCEPT !.children = toggle_hideOnly(@, id)]
        ELSE items[i] ]

RECURSIVE toggle(_, _)
\* handleToggleHidden.toggle
toggle(items, id) ==
    [ i \in 1..Len(items) |->
        IF items[i].id = id THEN [items[i] EXCEPT !.hidden = ~@]
        ELSE IF items[i].hasChildren
        THEN [items[i] EXCEPT !.children = toggle(@, id)]
        ELSE items[i] ]

RECURSIVE update(_, _, _)
\* handleLabelChange.update: label.trim() || undefined
update(items, id, label) ==
    [ i \in 1..Len(items) |->
        IF items[i].id = id THEN [items[i] EXCEPT !.label = Trim(label)]
        ELSE IF items[i].hasChildren
        THEN [items[i] EXCEPT !.children = update(@, id, label)]
        ELSE items[i] ]

\* what the actions of the editor leave alone: the serialiser's side
serialiserVars == <<out, fontsUsed, autoFonts, pc, call>>

\* the types dragged from the sidebar; mj-legacy is not in the registry
AddTypes == {"mj-section", "mj-text", "mj-legacy"}

\* the cards of the canvas on which a sidebar component can be dropped: the
\* nodes whose type is a container; "" is the canvas itself (no parentId)
DropParents(items) ==
    {""} \cup { n.id : n \in { findSelected(items, id)[1] : id \in IdSet(items) }
                          \cap { m \in { findSelected(items, id)[1] : id \in IdSet(items) } :
                                   isContainerType(m.type) } }

InitEditor ==
    /\ elements = << >>
    /\ out = ""
    /\ fontsUsed = << >>
    /\ autoFonts = << >>
    /\ pc = "ready"
    /\ selectedId = ""
    /\ nextId = 1
    /\ call = << >>
    /\ InitPanel

\* handleAddComponent(type, parentId), called by Canvas.onCanvasDrop without a
\* parentId and by Canvas.onCardDrop with the id of a container card
handleAddComponent ==
    \E type \in AddTypes, parentId \in DropParents(elements) :
        /\ nextId <= MaxNodes
        /\ IF ~isRegistered(type)
           THEN UNCHANGED <<elements, selectedId, nextId>>
           ELSE LET el == newElement(type, "n" \o ToString(nextId))
                IN  /\ elements' = IF parentId # ""
                                    THEN addUnder(elements, parentId, el)
                                    ELSE Append(elements, el)
                    /\ selectedId' = el.id
                    /\ nextId' = nextId + 1
        /\ UNCHANGED <<serialiserVars, panelVars>>

\* handleUpdateElement(updated), called by the PropertyEditor with the selected
\* element and a new content: onUpdate({ ...element, content })
handleUpdateElement ==
    /\ findSelected(elements, selectedId) # << >>
    /\ LET element == findSelected(elements, selectedId)[1]
       IN  \E content \in {"Edited"} :
              elements' = replaceById(elements, [element EXCEPT !.content = content])
    /\ UNCHANGED <<selectedId, nextId>>
    /\ UNCHANGED <<serialiserVars, panelVars>>

\* handleDeleteElement(id), called from the card or the PropertyEditor of a node
handleDeleteElement ==
    \E id \in IdSet(elements) :
        /\ elements' = rm(elements, id)
        /\ selectedId' = ""
        /\ UNCHANGED nextId
        /\ UNCHANGED <<serialiserVars, panelVars>>

\* a variant of onCardDrop that nests into any card
onCardDrop_intoAnyCard ==
    \E dragId \in IdSet(elements), elId \in IdSet(elements),
       position \in {"before", "after", "inside"} :
        /\ dragId # elId
        /\ IF position = "inside"
           THEN elements' = moveInto(elements, dragId, elId)
           ELSE elements' = reorder(elements, dragId, elId, position)
        /\ UNCHANGED <<selectedId, nextId>>
        /\ UNCHANGED <<serialiserVars, panelVars>>

\* Canvas.onCardDrop of a grip drag: the card dragged and the card dropped on
\* are nodes of the tree; getPosition gives inside for a container card only
onCardDrop ==
    \E dragId \in IdSet(elements), elId \in IdSet(elements),
       position \in {"before", "after", "inside"} :
        LET isContainer == isContainerType(findSelected(elements, elId)[1].type)
        IN  /\ dragId # elId
            /\ position = "inside" => isContainer
            /\ IF position = "inside" /\ isContainer
               THEN elements' = moveInto(elements, dragId, elId)
               ELSE elements' = reorder(elements, dragId, elId, position)
            /\ UNCHANGED <<selectedId, nextId>>
            /\ UNCHANGED <<serialiserVars, panelVars>>

\* handleMoveById(id, direction), called by the Up and Down buttons of a card
handleMoveById ==
    \E id \in IdSet(elements), direction \in {"up", "down"} :
        /\ elements' = moveById(elements, id, direction)
        /\ UNCHANGED <<selectedId, nextId>>
        /\ UNCHANGED <<serialiserVars, panelVars>>

\* handleMoveSelected(direction), called by the arrow keys
handleMoveSelected ==
    \E direction \in {"up", "down"} :
        /\ selectedId # ""
        /\ elements' = moveById(elements, selectedId, direction)
        /\ UNCHANGED <<selectedId, nextId>>
        /\ UNCHANGED <<serialiserVars, panelVars>>

\* handleToggleHidden(id)
handleToggleHidden ==
    \E id \in IdSet(elements) :
        /\ elements' = toggle(elements, id)
        /\ UNCHANGED <<selectedId, nextId>>
        /\ UNCHANGED <<serialiserVars, panelVars>>

\* handleLabelChange(id, label), called when the inline editor of a card commits
handleLabelChange ==
    \E id \in IdSet(elements), label \in {" Intro ", " "} :
        /\ elements' = update(elements, id, label)
        /\ UNCHANGED <<selectedId, nextId>>
        /\ UNCHANGED <<serialiserVars, panelVars>>

\* onSelect(id): a click on a card
onSelect ==
    \E id \in IdSet(elements) :
        /\ selectedId' = id
        /\ UNCHANGED <<elements, nextId>>
        /\ UNCHANGED <<serialiserVars, panelVars>>

NextEditor ==
    \/ handleAddComponent
    \/ handleUpdateElement
    \/ handleDeleteElement
    \/ onCardDrop
    \/ handleMoveById
    \/ handleMoveSelected
    \/ handleToggleHidden
    \/ handleLabelChange
    \/ onSelect

SpecEditor == InitEditor /\ [][NextEditor]_vars

-----------------------------------------------------------------------------
(* The editor with its stored trees: campaigns, templates and versions     *)

\* the trees the store returns: saved from the editor at some earlier time
SavedTrees ==
    { << >>,
      << Node("s1", "mj-text", << >>, "Text", FALSE, << >>, FALSE) >> }

\* loadCampaign(els, campaignId, campaignName)
loadCampaign ==
    \E els \in SavedTrees :
        /\ elements' = els
        /\ selectedId' = ""
        /\ UNCHANGED nextId
        /\ UNCHANGED <<serialiserVars, panelVars>>

\* loadTemplate(tpl)
loadTemplate ==
    \E els \in SavedTrees :
        /\ elements' = els
        /\ selectedId' = ""
        /\ UNCHANGED nextId
        /\ UNCHANGED <<serialiserVars, panelVars>>

\* handleRestore(snapshot)
handleRestore ==
    \E els \in SavedTrees :
        /\ elements' = els
        /\ UNCHANGED <<selectedId, nextId>>
        /\ UNCHANGED <<serialiserVars, panelVars>>

\* switchMode(mode)
switchMode ==
    /\ selectedId' = ""
    /\ UNCHANGED <<elements, nextId>>
    /\ UNCHANGED <<serialiserVars, panelVars>>

NextSession ==
    \/ handleAddComponent
    \/ handleUpdateElement
    \/ handleDeleteElement
    \/ onCardDrop
    \/ handleMoveById
    \/ handleMoveSelected
    \/ handleToggleHidden
    \/ handleLabelChange
    \/ onSelect
    \/ loadCampaign
    \/ loadTemplate
    \/ handleRestore
    \/ switchMode

SpecSession == InitEditor /\ [][NextSession]_vars

-----------------------------------------------------------------------------
(* The handlers one by one: a tree is chosen and one handler is called on  *)
(* it, with ids of the tree or an id that is not in the tree               *)

TextEl(id) == Node(id, "mj-text", << >>, "Text", FALSE, << >>, FALSE)
BoxEl(id, type, children) == Node(id, type, << >>, "", TRUE, children, FALSE)
HiddenEl(id) == Node(id, "mj-text", << >>, "Hidden", FALSE, << >>, TRUE)

\*   a [ b [ c ], d ], e, f [ ]      and      e, a [ d, b [ c, g ] ]
\*   and, with c hidden,   a [ c, d ], e
EditorTrees ==
    { << BoxEl("a", "mj-section", << BoxEl("b", "mj-column", << TextEl("c") >>), TextEl("d") >>),
         TextEl("e"),
         BoxEl("f", "mj-section", << >>) >>,
      << TextEl("e"),
         BoxEl("a", "mj-section",
               << TextEl("d"), BoxEl("b", "mj-column", << TextEl("c"), TextEl("g") >>) >>) >>,
      << BoxEl("a", "mj-section", << HiddenEl("c"), TextEl("d") >>),
         TextEl("e") >> }

\* the ids a handler is called with: those of the tree and one that is not in it
CallIds(items) == IdSet(items) \cup {"zz"}

InitHandlers ==
    /\ elements \in EditorTrees
    /\ out = ""
    /\ fontsUsed = << >>
    /\ autoFonts = << >>
    /\ pc = "ready"
    /\ selectedId \in {"", "c", "zz"}
    /\ nextId = 1
    /\ call = << >>
    /\ InitPanel

\* handleMoveInto(dragId, containerId)
handleMoveInto ==
    \E dragId \in CallIds(elements), containerId \in CallIds(elements) :
        /\ pc = "ready"
        /\ elements' = moveInto(elements, dragId, containerId)
        /\ call' = [ op |-> "handleMoveInto", dragId |-> dragId, targetId |-> containerId,
                     position |-> "inside" ]
        /\ pc' = "called"
        /\ UNCHANGED <<out, fontsUsed, autoFonts, selectedId, nextId, panelVars>>

\* handleReorder(dragId, targetId, position)
handleReorder ==
    \E dragId \in CallIds(elements), targetId \in CallIds(elements),
       position \in {"before", "after"} :
        /\ pc = "ready"
        /\ elements' = reorder(elements, dragId, targetId, position)
        /\ call' = [ op |-> "handleReorder", dragId |-> dragId, targetId |-> targetId,
                     position |-> position ]
        /\ pc' = "called"
        /\ UNCHANGED <<out, fontsUsed, autoFonts, selectedId, nextId, panelVars>>

\* handleDeleteElement(id), with any id
callDeleteElement ==
    \E id \in CallIds(elements) :
        /\ pc = "ready"
        /\ elements' = rm(elements, id)
        /\ selectedId' = ""
        /\ call' = [ op |-> "handleDeleteElement", id |-> id, direction |-> "",
                     prev |-> elements ]
        /\ pc' = "called"
        /\ UNCHANGED <<out, fontsUsed, autoFonts, nextId, panelVars>>

\* handleToggleHidden(id), with any id
callToggleHidden ==
    \E id \in CallIds(elements) :
        /\ pc = "ready"
        /\ elements' = toggle(elements, id)
        /\ call' = [ op |-> "handleToggleHidden", id |-> id, direction |-> "",
                     prev |-> elements ]
        /\ pc' = "called"
        /\ UNCHANGED <<out, fontsUsed, autoFonts, selectedId, nextId, panelVars>>

\* handleToggleHidden(id) once more, with the id of the call before
callToggleHiddenAgain ==
    /\ pc = "called"
    /\ call.op = "handleToggleHidden"
    /\ elements' = toggle(elements, call.id)
    /\ pc' = "twice"
    /\ UNCHANGED <<out, fontsUsed, autoFonts, selectedId, nextId, call, panelVars>>

\* handleMoveById(id, direction), with any id
callMoveById ==
    \E id \in CallIds(elements), direction \in {"up", "down"} :
        /\ pc = "ready"
        /\ elements' = moveById(elements, id, direction)
        /\ call' = [ op |-> "handleMoveById", id |-> id, direction |-> direction,
                     prev |-> elements ]
        /\ pc' = "called"
        /\ UNCHANGED <<out, fontsUsed, autoFonts, selectedId, nextId, panelVars>>

\* handleMoveSelected(direction), with any selection
callMoveSelected ==
    \E direction \in {"up", "down"} :
        /\ pc = "ready"
        /\ elements' = IF selectedId = "" THEN elements
                       ELSE moveById(elements, selectedId, direction)
        /\ call' = [ op |-> "handleMoveSelected", id |-> selectedId, direction |-> direction,
                     prev |-> elements ]
        /\ pc' = "called"
        /\ UNCHANGED <<out, fontsUsed, autoFonts, selectedId, nextId, panelVars>>

\* after a move up, the same handler with the same id and the direction down
callMoveBack ==
    /\ pc = "called"
    /\ call.op \in {"handleMoveById", "handleMoveSelected"}
    /\ call.direction = "up"
    /\ elements' = IF call.op = "handleMoveSelected" /\ selectedId = "" THEN elements
                   ELSE moveById(elements, call.id, "down")
    /\ pc' = "twice"
    /\ UNCHANGED <<out, fontsUsed, autoFonts, selectedId, nextId, call, panelVars>>

NextHandlers ==
    \/ handleMoveInto
    \/ handleReorder
    \/ callDeleteElement
    \/ callToggleHidden
    \/ callToggleHiddenAgain
    \/ callMoveById
    \/ callMoveSelected
    \/ callMoveBack

SpecHandlers == InitHandlers /\ [][NextHandlers]_vars

-----------------------------------------------------------------------------
(* The preview panel, the send button and the compile endpoint             *)

\* what the external compiler does with a markup: it returns HTML, returns a
\* result without HTML, or throws
CompilerOutcomes == {"html", "nohtml", "throws"}

\* the HTML the compiler makes of a markup: a function of the markup, different
\* for different markups
mjmlCompile(mjmlSource) == "<!doctype html>" \o mjmlSource

\* a variant of the endpoint that answers 200 whatever the compiler does
configureServer_alwaysOk(method, mjmlSource, compiler) ==
    [status |-> 200, html |-> mjmlCompile(mjmlSource), error |-> ""]

\* the middleware of /api/compile-mjml: the response to a request with the
\* method and the body { mjml: mjmlSource }; error = "" and html = "" stand for
\* a response without the field
configureServer(method, mjmlSource, compiler) ==
    IF method # "POST"
    THEN [status |-> 405, html |-> "", error |-> "Method not allowed"]
    ELSE IF Trim(mjmlSource) = ""
    THEN [status |-> 400, html |-> "", error |-> "No MJML provided"]
    ELSE IF compiler = "throws"
    THEN [status |-> 500, html |-> "", error |-> "Compiler failed"]
    ELSE [status |-> 200,
          html |-> IF compiler = "html" THEN mjmlCompile(mjmlSource) ELSE "",
          error |-> ""]

\* res.ok
ok(res) == res.status >= 200 /\ res.status <= 299

\* the record of a call of the endpoint and of its response: who called and
\* whether the caller had aborted, the method, whether the markup was blank,
\* what the compiler did, and the status and the fields of the response
served(by, aborted, method, mjmlSource, compiler, res) ==
    [ op |-> "compile-mjml", by |-> by, aborted |-> aborted, method |-> method,
      blank |-> (Trim(mjmlSource) = ""), compiler |-> compiler,
      status |-> res.status, hasHtml |-> (res.html # ""), error |-> res.error ]

Idle == [status |-> "idle", html |-> "", message |-> ""]
Loading == [status |-> "loading", html |-> "", message |-> ""]
Success(html) == [status |-> "success", html |-> html, message |-> ""]
Failed(message) == [status |-> "error", html |-> "", message |-> message]

\* the trees the preview panel is given: the empty one, one whose only node is
\* hidden, and two that serialise differently
PreviewTrees ==
    { << >>, << HiddenEl("h") >>, << TextEl("e") >>, << TextEl("e"), TextEl("d") >> }

\* const mjml = generateMJML(elements), for each of the trees
markupOf == [els \in PreviewTrees |-> generateMJML(els)]

\* controller.abort() of the effect's cleanup: the requests of the effect that
\* are in flight are aborted
abortAll(reqs) ==
    { [r EXCEPT !.aborted = (r.by = "effect") \/ @] : r \in reqs }

\* a variant of the cleanup that aborts nothing
autoCompile_noAbort(t, els, mjml) ==
    IF t = "mjml" THEN UNCHANGED <<compile, requests>>
    ELSE IF Len(els) = 0 THEN compile' = Idle /\ UNCHANGED requests
    ELSE /\ compile' = Loading
         /\ requests' = requests \cup {[by |-> "effect", mjml |-> mjml, aborted |-> FALSE]}

\* the auto-compile effect, run after a render in which tab or mjml changed:
\* the cleanup of the run before, then the body
autoCompile(t, els, mjml) ==
    IF t = "mjml" THEN compile' = compile /\ requests' = abortAll(requests)
    ELSE IF Len(els) = 0 THEN compile' = Idle /\ requests' = abortAll(requests)
    ELSE /\ compile' = Loading
         /\ requests' = abortAll(requests)
                            \cup {[by |-> "effect", mjml |-> mjml, aborted |-> FALSE]}

\* what the preview panel and the send button leave alone
editorVars == <<fontsUsed, autoFonts, pc, selectedId, nextId>>

InitPreview ==
    /\ elements = << >>
    /\ out = markupOf[<< >>]
    /\ fontsUsed = << >>
    /\ autoFonts = << >>
    /\ pc = "ready"
    /\ selectedId = ""
    /\ nextId = 1
    /\ call = << >>
    /\ InitPanel

\* setElements: the editor hands the panel another tree; the panel renders,
\* const mjml = generateMJML(elements), and the effect runs if mjml changed
setElements ==
    \E els \in PreviewTrees \ {elements} :
        LET mjml == markupOf[els]
        IN  /\ elements' = els
            /\ out' = mjml
            /\ IF mjml = out THEN UNCHANGED <<compile, requests>>
               ELSE autoCompile(tab, els, mjml)
            /\ UNCHANGED <<editorVars, call, tab, exported,
                           isSendCompiling, showSendEmail, sendHtml>>

\* setTab(t): a click on a tab that is not the one shown
setTab ==
    \E t \in {"mjml", "html", "view"} \ {tab} :
        /\ tab' = t
        /\ autoCompile(t, elements, out)
        /\ UNCHANGED <<editorVars, elements, out, call, exported,
                       isSendCompiling, showSendEmail, sendHtml>>

\* the fetch of the auto-compile effect settles: AbortError for an aborted
\* request, else the then-branch or the catch-branch
effectResponse ==
    \E r \in requests, compiler \in CompilerOutcomes :
        LET res == configureServer("POST", r.mjml, compiler)
        IN  /\ r.by = "effect"
            /\ requests' = requests \ {r}
            /\ call' = served("effect", r.aborted, "POST", r.mjml, compiler, res)
            /\ compile' = IF r.aborted THEN compile
                          ELSE IF ~ok(res) \/ res.html = ""
                          THEN Failed(IF res.error # "" THEN res.error
                                      ELSE "Compilation returned no HTML")
                          ELSE Success(res.html)
            /\ UNCHANGED <<editorVars, elements, out, tab, exported,
                           isSendCompiling, showSendEmail, sendHtml>>

\* handleExportHtml, with compileForExport: the button is disabled on an empty
\* tree and while an export is running
handleExportHtml ==
    /\ Len(elements) # 0
    /\ \A r \in requests : r.by # "export"
    /\ IF compile.status = "success"
       THEN /\ exported' = [html |-> compile.html, mjml |-> out, cached |-> TRUE]
            /\ UNCHANGED requests
       ELSE /\ requests' = requests \cup {[by |-> "export", mjml |-> out, aborted |-> FALSE]}
            /\ UNCHANGED exported
    /\ UNCHANGED <<editorVars, elements, out, call, tab, compile,
                   isSendCompiling, showSendEmail, sendHtml>>

\* the fetch of compileForExport settles
exportResponse ==
    \E r \in requests, compiler \in CompilerOutcomes :
        LET res == configureServer("POST", r.mjml, compiler)
        IN  /\ r.by = "export"
            /\ requests' = requests \ {r}
            /\ call' = served("export", FALSE, "POST", r.mjml, compiler, res)
            /\ IF ~ok(res) \/ res.html = ""
               THEN UNCHANGED <<compile, exported>>
               ELSE /\ compile' = Success(res.html)
                    /\ exported' = [html |-> res.html, mjml |-> out, cached |-> FALSE]
            /\ UNCHANGED <<editorVars, elements, out, tab,
                           isSendCompiling, showSendEmail, sendHtml>>

\* handleOpenSendEmail up to its fetch: the button is disabled on an empty tree
\* and while isSendCompiling
handleOpenSendEmail ==
    /\ Len(elements) # 0
    /\ ~isSendCompiling
    /\ isSendCompiling' = TRUE
    /\ requests' = requests \cup {[by |-> "send", mjml |-> markupOf[elements],
                                    aborted |-> FALSE]}
    /\ UNCHANGED <<editorVars, elements, out, call, tab, compile, exported,
                   showSendEmail, sendHtml>>

\* the fetch of handleOpenSendEmail settles: try, catch and finally
sendResponse ==
    \E r \in requests, compiler \in CompilerOutcomes :
        LET res == configureServer("POST", r.mjml, compiler)
        IN  /\ r.by = "send"
            /\ requests' = requests \ {r}
            /\ call' = served("send", FALSE, "POST", r.mjml, compiler, res)
            /\ IF ~ok(res) \/ res.html = ""
               THEN UNCHANGED <<showSendEmail, sendHtml>>
               ELSE sendHtml' = res.html /\ showSendEmail' = TRUE
            /\ isSendCompiling' = FALSE
            /\ UNCHANGED <<editorVars, elements, out, tab, compile, exported>>

\* onClose of the send modal
closeSendEmail ==
    /\ showSendEmail
    /\ showSendEmail' = FALSE
    /\ sendHtml' = ""
    /\ UNCHANGED <<editorVars, elements, out, call, tab, compile, requests, exported,
                   isSendCompiling>>

\* a request to the endpoint by another client: any method, a blank body or the
\* markup
otherRequest ==
    \E method \in {"GET", "POST"}, mjmlSource \in {"", " \n ", out},
       compiler \in CompilerOutcomes :
        /\ call' = served("other", FALSE, method, mjmlSource, compiler,
                          configureServer(method, mjmlSource, compiler))
        /\ UNCHANGED <<editorVars, elements, out, panelVars>>

\* the preview panel beside the editor
NextPreview ==
    \/ setElements
    \/ setTab
    \/ effectResponse
    \/ handleExportHtml
    \/ exportResponse

SpecPreview == InitPreview /\ [][NextPreview]_vars

\* the endpoint and its callers on the view tab: the auto-compile effect, the
\* send button and another client
NextCompile ==
    \/ setElements
    \/ effectResponse
    \/ handleOpenSendEmail
    \/ sendResponse
    \/ closeSendEmail
    \/ otherRequest

SpecCompile == InitPreview /\ [][NextCompile]_vars

-----------------------------------------------------------------------------
(* Reading the output and the input tree, for the properties below         *)

StartsWith(s, p) == Len(p) <= Len(s) /\ SubSeq(s, 1, Len(p)) = p
EndsWith(s, p) == Len(p) <= Len(s) /\ SubSeq(s, Len(s) - Len(p) + 1, Len(s)) = p

\* the positions at which p occurs in s
Occurrences(s, p) ==
    { i \in 1..(Len(s) - Len(p) + 1) : SubSeq(s, i, i + Len(p) - 1) = p }

Contains(s, p) == Occurrences(s, p) # {}

MinOf(S) == CHOOSE i \in S : \A j \in S : i <= j

\* the text after the first a and before the next b ("" when either is missing)
Between(s, a, b) ==
    IF ~Contains(s, a) THEN ""
    ELSE LET rest == SubSeq(s, MinOf(Occurrences(s, a)) + Len(a), Len(s))
         IN  IF ~Contains(rest, b) THEN ""
             ELSE SubSeq(rest, 1, MinOf(Occurrences(rest, b)) - 1)

\* the positions in s at which a tag opens: a "<" that no "/" follows
OpenPositions(s) ==
    { i \in 1..Len(s) : CharAt(s, i) = "<" /\ CharAt(s, i + 1) # "/" }

\* the position of the ">" that closes the tag opened at position p
ClosePosition(s, p) == MinOf({ i \in p..Len(s) : CharAt(s, i) = ">" })

\* the tags opened in s, in document order: for each its text, from "<" to ">",
\* the two characters that follow it, and the positions of its "<" and ">"
OpenTags(s) ==
    LET ps == OpenPositions(s)
    IN  [ r \in 1..Cardinality(ps) |->
            LET p == CHOOSE x \in ps : Cardinality({ y \in ps : y < x }) = r - 1
                q == ClosePosition(s, p)
            IN  [ text |-> SubSeq(s, p, q), after |-> SubSeq(s, q + 1, q + 2),
                  pos |-> p, end |-> q ] ]

\* the tag name of a tag text
TagName(t) ==
    LET ends == { i \in 1..Len(t) : CharAt(t, i) \in {" ", ">"} }
    IN  SubSeq(t, 2, MinOf(ends) - 1)

\* the tags of the rendered nodes: every tag but the wrappers mjml, mj-head, mj-body
NodeTags(s) ==
    SelectSeq(OpenTags(s), LAMBDA t : TagName(t.text) \notin {"mjml", "mj-head", "mj-body"})

\* the name a font declaration declares, read from its tag text
DeclaredName(t) == Between(t, " name=\"", "\" href=\"")

\* The nodes of a tree in document order (a node before its children), each
\* with its depth, whether an ancestor is hidden, whether an ancestor is
\* self-closing, and the type of its top-level ancestor
RECURSIVE Flatten(_, _, _, _, _)
Flatten(els, depth, hiddenAbove, closedAbove, top) ==
    IF Len(els) = 0 THEN << >>
    ELSE
        LET n  == els[1]
            tt == IF depth = 0 THEN n.type ELSE top
            e  == [ node |-> n, depth |-> depth, hiddenAbove |-> hiddenAbove,
                    closedAbove |-> closedAbove, top |-> tt ]
            below == IF n.hasChildren
                     THEN Flatten(n.children, depth + 1, hiddenAbove \/ n.hidden,
                                  closedAbove \/ n.type \in SELF_CLOSING, tt)
                     ELSE << >>
        IN  <<e>> \o below \o Flatten(Tail(els), depth, hiddenAbove, closedAbove, top)

AllNodes(els) == Flatten(els, 0, FALSE, FALSE, "")

\* neither the node nor an ancestor of it is hidden
Shown(e) == ~e.node.hidden /\ ~e.hiddenAbove

\* the shown nodes that are not inside a self-closing node, head section first
HeadEntries(els) ==
    SelectSeq(AllNodes(els), LAMBDA e : Shown(e) /\ ~e.closedAbove /\ e.top \in HEAD_TYPES)
BodyEntries(els) ==
    SelectSeq(AllNodes(els), LAMBDA e : Shown(e) /\ ~e.closedAbove /\ e.top \notin HEAD_TYPES)

\* the shown nodes below a top-level body node, whatever their ancestors' types
ShownBodyNodes(els) ==
    LET all == AllNodes(els)
    IN  { all[i].node : i \in { j \in 1..Len(all) : Shown(all[j]) /\ all[j].top \notin HEAD_TYPES } }

\* the shown top-level mj-font nodes
ShownManualFonts(els) ==
    LET all == AllNodes(els)
    IN  { all[i].node : i \in { j \in 1..Len(all) :
            Shown(all[j]) /\ all[j].depth = 0 /\ all[j].node.type = "mj-font" } }

\* the output has one tag per shown node and synthesized declaration: the
\* manual head nodes, then the synthesized declarations, then the body
TagsMatchNodes ==
    Len(NodeTags(out)) = Len(HeadEntries(elements)) + Len(autoFonts) + Len(BodyEntries(elements))

\* the shown nodes in the order of their tags, each with its tag
Rendered ==
    LET tags == NodeTags(out)
        head == HeadEntries(elements)
        body == BodyEntries(elements)
    IN  [ i \in 1..Len(head) |-> [ node |-> head[i].node, tag |-> tags[i] ] ]
        \o [ i \in 1..Len(body) |->
               [ node |-> body[i].node, tag |-> tags[Len(head) + Len(autoFonts) + i] ] ]

\* the rendered nodes of the body section, each with its tag
RenderedBody == SubSeq(Rendered, Len(HeadEntries(elements)) + 1, Len(Rendered))

\* the registry's default attributes of a type, as the registry table gives them
RegistryKeys(type) ==
    { a.k : a \in UNION { { MJML_COMPONENTS[i].defaultAttrs[j] :
                              j \in 1..Len(MJML_COMPONENTS[i].defaultAttrs) } :
                          i \in { x \in 1..Len(MJML_COMPONENTS) : MJML_COMPONENTS[x].type = type } } }

RegistryValue(type, key) ==
    LET c == MJML_COMPONENTS[CHOOSE i \in 1..Len(MJML_COMPONENTS) : MJML_COMPONENTS[i].type = type]
    IN  c.defaultAttrs[CHOOSE j \in 1..Len(c.defaultAttrs) : c.defaultAttrs[j].k = key].v

LiveKeys(n) == { n.attributes[i].k : i \in 1..Len(n.attributes) }
LiveValue(n, key) == n.attributes[CHOOSE i \in 1..Len(n.attributes) : n.attributes[i].k = key].v

\* the value the effective attribute map gives a key: the node's own value when
\* the node has the key, the registry default otherwise
EffectiveValue(n, key) ==
    IF key \in LiveKeys(n) THEN LiveValue(n, key) ELSE RegistryValue(n.type, key)

EffectiveKeys(n) == RegistryKeys(n.type) \cup LiveKeys(n)

Pair(key, value) == " " \o key \o "=\"" \o value \o "\""

-----------------------------------------------------------------------------
(* Properties of generateMJML                                              *)

IsMarked(n) == GetAttr(n.attributes, "css-class") = n.id

CountTags(tags, type) ==
    Cardinality({ i \in 1..Len(tags) : TagName(tags[i].text) = type })

CountShown(all, type) ==
    Cardinality({ i \in 1..Len(all) : Shown(all[i]) /\ all[i].node.type = type })

\* C1: the output holds no tag of a node that is hidden or has a hidden
\* ancestor: the css-class of such a node (when the node carries its id as
\* css-class) occurs nowhere in the output, and for every type the output has at
\* most as many tags as the tree has shown nodes of that type (plus, for mj-font,
\* the synthesized declarations).
C1_HiddenNeverRendered ==
    pc = "done" =>
        LET all  == AllNodes(elements)
            tags == NodeTags(out)
        IN  /\ \A i \in 1..Len(all) :
                  (~Shown(all[i]) /\ IsMarked(all[i].node))
                      => ~Contains(out, Pair("css-class", all[i].node.id))
            /\ \A type \in { TagName(tags[i].text) : i \in 1..Len(tags) } :
                  CountTags(tags, type)
                      <= CountShown(all, type) + (IF type = "mj-font" THEN Len(autoFonts) ELSE 0)

\* a visible node inside a hidden parent, and a hidden node inside a visible one
C1_Witness ==
    /\ pc = "done"
    /\ LET all == AllNodes(elements)
       IN  /\ \E i \in 1..Len(all) :
                 all[i].hiddenAbove /\ ~all[i].node.hidden /\ IsMarked(all[i].node)
           /\ \E i \in 1..Len(all) :
                 ~all[i].hiddenAbove /\ all[i].node.hidden /\ all[i].depth > 0
           /\ \E i \in 1..Len(all) : Shown(all[i])

\* C2: the tag of every rendered node carries the registry defaults of its type
\* overridden by the node's own attributes: the merged map gives every key the
\* node's value when the node has the key and the default otherwise, and every
\* key whose value is not blank is emitted with that value, and no other key is.
C2_DefaultsOverriddenByLive ==
    pc = "done" =>
        /\ TagsMatchNodes
        /\ \A r \in { Rendered[i] : i \in 1..Len(Rendered) } :
              LET n == r.node
                  m == mergedAttributes(n)
              IN  /\ TagName(r.tag.text) = n.type
                  /\ { m[i].k : i \in 1..Len(m) } = EffectiveKeys(n)
                  /\ \A i \in 1..Len(m) : m[i].v = EffectiveValue(n, m[i].k)
                  /\ \A key \in EffectiveKeys(n) :
                        EffectiveValue(n, key) # ""
                            => Contains(r.tag.text, Pair(key, EffectiveValue(n, key)))
                  /\ Cardinality(Occurrences(r.tag.text, "=\""))
                        = Cardinality({ key \in EffectiveKeys(n) : EffectiveValue(n, key) # "" })

\* a rendered node with a key on both sides, a default-only key and a live-only key
C2_Witness ==
    /\ pc = "done"
    /\ \E r \in { Rendered[i] : i \in 1..Len(Rendered) } :
          LET n == r.node
          IN  /\ \E key \in RegistryKeys(n.type) \cap LiveKeys(n) :
                    /\ LiveValue(n, key) # ""
                    /\ RegistryValue(n.type, key) \notin {"", LiveValue(n, key)}
              /\ \E key \in RegistryKeys(n.type) \ LiveKeys(n) : RegistryValue(n.type, key) # ""
              /\ \E key \in LiveKeys(n) \ RegistryKeys(n.type) : LiveValue(n, key) # ""

StartsWithQuote(v) == v # "" /\ Head(v) = "\""

\* C3: a key whose live value is blank is not in the node's tag, whatever the
\* registry default of that key, and no emitted pair has a blank value.
C3_BlankLiveSuppressed ==
    pc = "done" =>
        /\ TagsMatchNodes
        /\ \A r \in { Rendered[i] : i \in 1..Len(Rendered) } :
              LET n == r.node
                  e == emittedAttrs(n)
              IN  /\ \A key \in LiveKeys(n) :
                        LiveValue(n, key) = "" => ~Contains(r.tag.text, " " \o key \o "=\"")
                  /\ \A i \in 1..Len(e) : e[i].v # ""
                  /\ (\A key \in EffectiveKeys(n) : ~StartsWithQuote(EffectiveValue(n, key)))
                        => ~Contains(r.tag.text, "=\"\"")

\* a rendered node with a blank live value for a key whose default is not blank
C3_Witness ==
    /\ pc = "done"
    /\ \E r \in { Rendered[i] : i \in 1..Len(Rendered) } :
          \E key \in RegistryKeys(r.node.type) \cap LiveKeys(r.node) :
              LiveValue(r.node, key) = "" /\ RegistryValue(r.node.type, key) # ""

\* C4: a shown node of a self-closing type is one empty-element tag: its tag ends
\* in " />", nothing of the node follows the tag, the output closes no tag of
\* that type, and its children have no tags in the output.
C4_SelfClosingFidelity ==
    pc = "done" =>
        /\ TagsMatchNodes
        /\ \A r \in { Rendered[i] : i \in 1..Len(Rendered) } :
              r.node.type \in SELF_CLOSING =>
                  /\ TagName(r.tag.text) = r.node.type
                  /\ EndsWith(r.tag.text, " />")
                  /\ r.tag.after = "</" \/ StartsWith(r.tag.after, "\n")
                  /\ ~Contains(out, "</" \o r.node.type \o ">")

\* a rendered self-closing node that carries content and children
C4_Witness ==
    /\ pc = "done"
    /\ \E r \in { Rendered[i] : i \in 1..Len(Rendered) } :
          /\ r.node.type \in SELF_CLOSING
          /\ r.node.content # ""
          /\ r.node.hasChildren /\ Len(r.node.children) > 0

\* C5: the output for the empty tree has a head section holding exactly the
\* declaration of Inter with its URL, followed by an empty body wrapper.
C5_EmptyTreeBaseline ==
    (pc = "done" /\ elements = << >>) =>
        LET tags  == NodeTags(out)
            inter == "<mj-font name=\"Inter\" href=\"https://fonts.googleapis.com/css2?family=Inter:wght@300;400;500;700&display=swap\" />"
        IN  /\ Len(tags) = 1
            /\ tags[1].text = inter
            /\ Trim(Between(out, "<mj-head>", "</mj-head>")) = inter
            /\ Cardinality(Occurrences(out, "<mj-body>")) = 1
            /\ Cardinality(Occurrences(out, "</mj-body>")) = 1
            /\ Trim(Between(out, "<mj-body>", "</mj-body>")) = ""
            /\ MinOf(Occurrences(out, "</mj-head>")) < MinOf(Occurrences(out, "<mj-body>"))

C5_Witness == pc = "done" /\ elements = << >> /\ Contains(out, "<mj-font")

FontFamilyOf(n) == GetAttr(n.attributes, "font-family")
FontNameOf(n) == GetAttr(n.attributes, "name")

\* the font declarations of the output whose name is N in any letter case
DeclarationsFor(N) ==
    LET tags == NodeTags(out)
    IN  { i \in 1..Len(tags) :
            /\ TagName(tags[i].text) = "mj-font"
            /\ ToLowerCase(DeclaredName(tags[i].text)) = ToLowerCase(N) }

\* C6: when a shown top-level mj-font declares N and a shown body node uses a
\* font whose primary name is N in any letter case, no declaration for N is
\* synthesized and the output's declarations for N are the manual ones.
C6_ManualFontNotSynthesized ==
    pc = "done" =>
        \A m \in ShownManualFonts(elements) : \A b \in ShownBodyNodes(elements) :
            LET N == FontNameOf(m)
                P == PrimaryFont(FontFamilyOf(b))
            IN  (N # "" /\ P # "" /\ ToLowerCase(P) = ToLowerCase(N)) =>
                  /\ \A i \in 1..Len(autoFonts) :
                        ToLowerCase(DeclaredName(autoFonts[i])) # ToLowerCase(N)
                  /\ Cardinality(DeclarationsFor(N))
                        = Cardinality({ f \in ShownManualFonts(elements) :
                                          ToLowerCase(FontNameOf(f)) = ToLowerCase(N) })

\* C7: no synthesized declaration names a system font, in any letter case; a
\* body node using Arial leaves no declaration of Arial in the output.
C7_NoSystemFontSynthesized ==
    pc = "done" =>
        /\ \A i \in 1..Len(autoFonts) :
              ToLowerCase(DeclaredName(autoFonts[i])) \notin SYSTEM_FONTS
        /\ \A b \in ShownBodyNodes(elements) :
              ToLowerCase(PrimaryFont(FontFamilyOf(b))) = "arial"
                  => DeclarationsFor("Arial") = {}
        /\ LET tags == NodeTags(out)
           IN  Cardinality({ i \in 1..Len(tags) :
                              /\ TagName(tags[i].text) = "mj-font"
                              /\ ToLowerCase(DeclaredName(tags[i].text)) \in SYSTEM_FONTS })
                 = Cardinality({ f \in ShownManualFonts(elements) :
                                   ToLowerCase(FontNameOf(f)) \in SYSTEM_FONTS })

\* a body node using a system font written in capitals, beside a synthesized font
C7_Witness ==
    /\ pc = "done"
    /\ \E b \in ShownBodyNodes(elements) :
          /\ FontFamilyOf(b) # ToLowerCase(FontFamilyOf(b))
          /\ ToLowerCase(PrimaryFont(FontFamilyOf(b))) \in SYSTEM_FONTS
    /\ Len(autoFonts) > 1

\* the text of s before its first comma
BeforeComma(s) ==
    IF Contains(s, ",") THEN SubSeq(s, 1, MinOf(Occurrences(s, ",")) - 1) ELSE s

\* s without the white space around it
Trimmed(s) ==
    LET inked == { i \in 1..Len(s) : ~IsWhiteSpace(CharAt(s, i)) }
    IN  IF inked = {} THEN ""
        ELSE SubSeq(s, MinOf(inked), CHOOSE i \in inked : \A j \in inked : j <= i)

\* t without the quotes that surround it, when a quote opens and a quote closes it
SurroundingQuotesStripped(t) ==
    IF Len(t) >= 2 /\ IsQuote(CharAt(t, 1)) /\ IsQuote(CharAt(t, Len(t)))
    THEN SubSeq(t, 2, Len(t) - 1)
    ELSE t

\* t without a quote at its start and without a quote at the end of what is left
EndQuotesStripped(t) ==
    LET a == IF t # "" /\ IsQuote(CharAt(t, 1)) THEN 2 ELSE 1
        b == IF Len(t) >= a /\ IsQuote(CharAt(t, Len(t))) THEN Len(t) - 1 ELSE Len(t)
    IN  SubSeq(t, a, b)

NoDuplicates(seq) == \A i, j \in 1..Len(seq) : seq[i] = seq[j] => i = j

\* C8 as stated: the fonts collected are, for the shown body nodes of every depth
\* with a font-family, the text before the first comma, trimmed, without its
\* surrounding quotes.
C8_PrimaryNameSurroundingQuotes ==
    pc = "done" =>
        /\ NoDuplicates(fontsUsed)
        /\ { fontsUsed[i] : i \in 1..Len(fontsUsed) }
              = { SurroundingQuotesStripped(Trimmed(BeforeComma(FontFamilyOf(b)))) :
                    b \in { n \in ShownBodyNodes(elements) : FontFamilyOf(n) # "" } } \ {""}

\* C8 as amended: the fonts collected are, for the shown body nodes of every
\* depth with a font-family, the text before the first comma, trimmed, without a
\* quote at its start and without a quote at its end, each removed on its own
\* whether or not the other end has one; an empty name is not collected.
C8_PrimaryNameEndQuotes ==
    pc = "done" =>
        /\ NoDuplicates(fontsUsed)
        /\ { fontsUsed[i] : i \in 1..Len(fontsUsed) }
              = { EndQuotesStripped(Trimmed(BeforeComma(FontFamilyOf(b)))) :
                    b \in { n \in ShownBodyNodes(elements) : FontFamilyOf(n) # "" } } \ {""}

\* a nested body node whose font-family opens with a quote that nothing closes
C8_Witness ==
    /\ pc = "done"
    /\ LET all == AllNodes(elements)
       IN  \E i \in 1..Len(all) :
              LET t == Trimmed(BeforeComma(FontFamilyOf(all[i].node)))
              IN  /\ Shown(all[i]) /\ all[i].depth >= 2
                  /\ Len(t) >= 2 /\ IsQuote(CharAt(t, 1)) /\ ~IsQuote(CharAt(t, Len(t)))
                  /\ \E j \in 1..Len(fontsUsed) : fontsUsed[j] = SubSeq(t, 2, Len(t))

PrimaryName(v) == EndQuotesStripped(Trimmed(BeforeComma(v)))

\* the font-family a rendered node's tag carries ("" when it carries none): the
\* node's own value or, when the node has no such key, the registry default
TagFontFamily(r) ==
    IF "font-family" \in EffectiveKeys(r.node)
          /\ Contains(r.tag.text, Pair("font-family", EffectiveValue(r.node, "font-family")))
    THEN EffectiveValue(r.node, "font-family")
    ELSE ""

\* C11: every body tag of the output that carries a font-family whose primary
\* name is not a system font has, in the head, a font declaration whose name is
\* that primary name in some letter case.
C11_EveryBodyFontDeclared ==
    pc = "done" =>
        /\ TagsMatchNodes
        /\ \A i \in 1..Len(RenderedBody) :
              LET P == PrimaryName(TagFontFamily(RenderedBody[i]))
              IN  (P # "" /\ ToLowerCase(P) \notin SYSTEM_FONTS) => DeclarationsFor(P) # {}

\* the tag lies in the head section of the output: before the head's closing tag
InHead(t) ==
    Contains(out, "</mj-head>") /\ t.pos < MinOf(Occurrences(out, "</mj-head>"))

\* the tag lies in the body section of the output: after the body's opening tag
InBody(t) ==
    Contains(out, "<mj-body>") /\ t.pos > MinOf(Occurrences(out, "<mj-body>"))

\* C12: the tag of a rendered node lies in the head section when the node's type
\* is in HEAD_TYPES and in the body section otherwise, at whatever depth the node
\* occurs.
C12_SectionByTypeEverywhere ==
    pc = "done" =>
        /\ TagsMatchNodes
        /\ \A i \in 1..Len(Rendered) :
              /\ InHead(Rendered[i].tag) <=> Rendered[i].node.type \in HEAD_TYPES
              /\ InBody(Rendered[i].tag) <=> Rendered[i].node.type \notin HEAD_TYPES

\* the declaration the serialiser synthesizes for the baseline font Inter
InterTag ==
    "<mj-font name=\"Inter\" href=\"https://fonts.googleapis.com/css2?family=Inter:wght@300;400;500;700&display=swap\" />"

\* a shown top-level mj-font declares Inter, in any letter case, white space aside
InterDeclaredByHand ==
    \E m \in ShownManualFonts(elements) : ToLowerCase(Trimmed(FontNameOf(m))) = "inter"

\* C13: the head of every output holds a declaration of Inter; the synthesized
\* one, with its fixed URL, is there exactly when no shown top-level mj-font
\* declares Inter (in any letter case, white space around the name aside),
\* whether or not the body uses Inter and whatever the hidden mj-font nodes declare.
C13_BaselineUnlessDeclared ==
    pc = "done" =>
        LET tags == NodeTags(out)
        IN  /\ \E i \in 1..Len(tags) :
                  /\ InHead(tags[i])
                  /\ TagName(tags[i].text) = "mj-font"
                  /\ ToLowerCase(Trimmed(DeclaredName(tags[i].text))) = "inter"
            /\ (\E i \in 1..Len(tags) : InHead(tags[i]) /\ tags[i].text = InterTag)
                  <=> ~InterDeclaredByHand
            /\ (\E i \in 1..Len(autoFonts) : Trimmed(autoFonts[i]) = InterTag)
                  <=> ~InterDeclaredByHand

\* Inter declared by hand under a name that differs from it in case and white
\* space, with a body that uses Inter, and no synthesized declaration of it
C13_Witness ==
    /\ pc = "done"
    /\ \E m \in ShownManualFonts(elements) :
          FontNameOf(m) # "Inter" /\ ToLowerCase(Trimmed(FontNameOf(m))) = "inter"
    /\ \E b \in ShownBodyNodes(elements) : PrimaryName(FontFamilyOf(b)) = "Inter"
    /\ ~Contains(out, InterTag)

\* the shown nodes below the top-level body nodes, in document order (a node
\* before its children, the children from left to right)
BodyWalk(els) ==
    SelectSeq(AllNodes(els), LAMBDA e : Shown(e) /\ e.top \notin HEAD_TYPES)

\* the place in the walk of the body at which the font named N is first used
\* (0 when no node uses it)
FirstUse(N) ==
    LET w    == BodyWalk(elements)
        uses == { i \in 1..Len(w) : PrimaryName(FontFamilyOf(w[i].node)) = N }
    IN  IF uses = {} THEN 0 ELSE MinOf(uses)

\* C14: the tags of the head are those of the manual head nodes in the order of
\* the tree, then the synthesized declarations: Inter first when it is
\* synthesized, then the fonts found in the body in the order in which the walk
\* of the shown body nodes first meets them; the body's tags come after these.
C14_HeadOrder ==
    pc = "done" =>
        LET tags == NodeTags(out)
            head == HeadEntries(elements)
            nh   == Len(head)
            na   == Len(autoFonts)
        IN  /\ TagsMatchNodes
            /\ \A i \in 1..nh :
                  /\ InHead(tags[i])
                  /\ TagName(tags[i].text) = head[i].node.type
                  /\ head[i].node.type = "mj-font"
                        => DeclaredName(tags[i].text) = FontNameOf(head[i].node)
            /\ \A i \in 1..na :
                  /\ InHead(tags[nh + i])
                  /\ tags[nh + i].text = Trimmed(autoFonts[i])
                  /\ Trimmed(autoFonts[i]) = InterTag => i = 1
                  /\ Trimmed(autoFonts[i]) # InterTag => FirstUse(DeclaredName(autoFonts[i])) > 0
            /\ \A i, j \in 1..na :
                  (i < j /\ Trimmed(autoFonts[i]) # InterTag)
                      => FirstUse(DeclaredName(autoFonts[i])) < FirstUse(DeclaredName(autoFonts[j]))
            /\ \A i \in (nh + na + 1)..Len(tags) : InBody(tags[i])

\* two manual head nodes of different types, and a font found inside a section
\* declared before one found on a later top-level node
C14_Witness ==
    /\ pc = "done"
    /\ LET head == HeadEntries(elements)
       IN  Len(head) = 2 /\ head[1].node.type = "mj-font" /\ head[2].node.type = "mj-title"
    /\ Len(autoFonts) = 4
    /\ LET w == BodyWalk(elements)
       IN  \E i, j \in 1..Len(w) :
              /\ w[i].depth = 1 /\ w[j].depth = 0 /\ i < j
              /\ FirstUse(PrimaryName(FontFamilyOf(w[i].node))) = i
              /\ FirstUse(PrimaryName(FontFamilyOf(w[j].node))) = j

\* the types the registry has an entry for
RegisteredTypes == { MJML_COMPONENTS[i].type : i \in 1..Len(MJML_COMPONENTS) }

\* the node's own attributes that are not blank, written as a tag writes them
OwnPairs(n) ==
    LET live == SelectSeq(n.attributes, LAMBDA a : a.v # "")
    IN  Join([i \in 1..Len(live) |-> live[i].k \o "=\"" \o live[i].v \o "\""], " ")

\* C15: generateMJML returns a document for every tree, registered types or
\* not: the result of every call is a document wrapped in the root element with
\* a body section and one tag per shown node, and a node of a type the registry
\* does not know is rendered as a tag named by the node's own type that carries
\* exactly the node's own non-blank attributes, in their order.
C15_TotalAndGenericForUnknownTypes ==
    pc = "done" =>
        /\ StartsWith(out, "<mjml>\n")
        /\ EndsWith(out, "\n</mjml>")
        /\ Contains(out, "<mj-body>") /\ Contains(out, "</mj-body>")
        /\ TagsMatchNodes
        /\ \A i \in 1..Len(Rendered) :
              LET n == Rendered[i].node
              IN  n.type \notin RegisteredTypes =>
                    Rendered[i].tag.text
                      = "<" \o n.type
                            \o (IF OwnPairs(n) # "" THEN " " \o OwnPairs(n) ELSE "")
                            \o (IF n.type \in SELF_CLOSING THEN " />" ELSE ">")

\* a rendered node of an unregistered type with one blank and one non-blank
\* attribute of its own
C15_Witness ==
    /\ pc = "done"
    /\ \E i \in 1..Len(Rendered) :
          LET n == Rendered[i].node
          IN  /\ n.type \notin RegisteredTypes
              /\ \E a, b \in 1..Len(n.attributes) :
                    n.attributes[a].v = "" /\ n.attributes[b].v # ""
              /\ Contains(out, "<" \o n.type \o " ")

\* the rendered nodes in the order of their tags, each with its tag and its depth
RenderedDeep ==
    LET entries == HeadEntries(elements) \o BodyEntries(elements)
    IN  [ i \in 1..Len(Rendered) |->
            [ node |-> Rendered[i].node, tag |-> Rendered[i].tag, depth |-> entries[i].depth ] ]

RECURSIVE Spaces(_)
Spaces(n) == IF n = 0 THEN "" ELSE " " \o Spaces(n - 1)

\* the indentation of a node at a depth: four spaces at the top level, two more
\* for every level below
IndentAt(depth) == Spaces(4 + 2 * depth)

\* the children of a node that are not hidden
ShownKids(n) ==
    IF n.hasChildren THEN SelectSeq(n.children, LAMBDA c : ~c.hidden) ELSE << >>

CloseOf(n) == "</" \o n.type \o ">"

\* the first position after from at which p occurs in the output (0 when none)
NextAfter(p, from) ==
    LET later == { i \in Occurrences(out, p) : i > from }
    IN  IF later = {} THEN 0 ELSE MinOf(later)

PayloadEmpty(n) == n.content = "" /\ ShownKids(n) = << >>

RECURSIVE OnOneLine(_)
\* the node is written on one line: it is self-closing, or its content has no
\* line break and it has nothing else, or it has no content and one child that
\* is written on one line
OnOneLine(n) ==
    \/ n.type \in SELF_CLOSING
    \/ /\ ~Contains(n.content, "\n")
       /\ \/ ShownKids(n) = << >>
          \/ n.content = "" /\ Len(ShownKids(n)) = 1 /\ OnOneLine(ShownKids(n)[1])

\* every line of s starts with the prefix p
EveryLineStartsWith(s, p) ==
    \A i \in {1} \cup { j + 1 : j \in Occurrences(s, "\n") } :
        SubSeq(s, i, i + Len(p) - 1) = p

\* the layout of a rendered node that is not self-closing, read from the output.
\* With indented = TRUE every line of a payload of several lines has to start
\* two spaces deeper than the node; with indented = FALSE the content is as the
\* node has it and only the children start two spaces deeper.
Layout(r, indented) ==
    LET n     == r.node
        t     == r.tag
        ind   == IndentAt(r.depth)
        close == CloseOf(n)
    IN  IF PayloadEmpty(n)
        THEN SubSeq(out, t.end + 1, t.end + Len(close)) = close
        ELSE IF OnOneLine(n)
        THEN LET q       == NextAfter(close, t.end)
                 payload == SubSeq(out, t.end + 1, q - 1)
             IN  /\ q > 0
                 /\ payload # ""
                 /\ ~Contains(payload, "\n")
                 /\ n.content # "" => payload = n.content
                 /\ n.content = "" => StartsWith(payload, ind \o "  <")
        ELSE LET q       == NextAfter("\n" \o ind \o close, t.end)
                 payload == SubSeq(out, t.end + 2, q - 1)
                 rest    == SubSeq(payload, Len(n.content) + 1, Len(payload))
             IN  /\ q > 0
                 /\ SubSeq(out, t.end + 1, t.end + 1) = "\n"
                 /\ SubSeq(out, t.pos - Len(ind) - 1, t.pos - 1) = "\n" \o ind
                 /\ IF indented
                    THEN EveryLineStartsWith(payload, ind \o "  ")
                    ELSE /\ StartsWith(payload, n.content)
                         /\ ShownKids(n) = << >> => rest = ""
                         /\ (ShownKids(n) # << >> /\ n.content # "")
                                => StartsWith(rest, "\n" \o ind \o "  <")
                         /\ (ShownKids(n) # << >> /\ n.content = "")
                                => StartsWith(rest, ind \o "  <")

\* C16 as stated: a node that is not self-closing is an open and close tag with
\* nothing between them when its payload is empty, is on one line when the
\* payload has no line break, and otherwise has its open tag, its payload with
\* every line indented deeper than the node, and its close tag at the node's
\* indentation on separate lines.
C16_PayloadIndented ==
    pc = "done" =>
        /\ TagsMatchNodes
        /\ LET rd == RenderedDeep
           IN  \A i \in 1..Len(rd) :
                  rd[i].node.type \notin SELF_CLOSING => Layout(rd[i], TRUE)

\* C16 as amended: the same three cases, but in the third the payload is placed
\* between the lines of the open and the close tag as it is: the content
\* exactly as the node has it, with no indentation added, followed by the
\* children, which start two spaces deeper than the node.
C16_PayloadVerbatim ==
    pc = "done" =>
        /\ TagsMatchNodes
        /\ LET rd == RenderedDeep
           IN  \A i \in 1..Len(rd) :
                  rd[i].node.type \notin SELF_CLOSING => Layout(rd[i], FALSE)

\* a rendered container whose content has a line break and that has a child
C16_Witness ==
    /\ pc = "done"
    /\ \E i \in 1..Len(RenderedDeep) :
          LET n == RenderedDeep[i].node
          IN  /\ n.type \notin SELF_CLOSING
              /\ Contains(n.content, "\n")
              /\ ShownKids(n) # << >>
              /\ Contains(out, ">\n" \o n.content \o "\n")

\* the position of the close tag of a rendered node that is not self-closing
CloseAt(r) ==
    IF OnOneLine(r.node)
    THEN NextAfter(CloseOf(r.node), r.tag.end)
    ELSE NextAfter("\n" \o IndentAt(r.depth) \o CloseOf(r.node), r.tag.end)

\* the places in rd (the rendered nodes with their depths) of the children of
\* the node at place i: the nodes one level deeper that follow it before the
\* next node that is not deeper
ChildPlaces(rd, i) ==
    { j \in (i + 1)..Len(rd) :
        /\ rd[j].depth = rd[i].depth + 1
        /\ \A k \in (i + 1)..j : rd[k].depth > rd[i].depth }

\* the tag is that of the node: its name is the node's type and it carries the
\* node's own attributes that are not blank
TagIsOf(t, n) ==
    /\ TagName(t.text) = n.type
    /\ \A a \in 1..Len(n.attributes) :
          n.attributes[a].v # "" => Contains(t.text, Pair(n.attributes[a].k, n.attributes[a].v))

\* the number of spaces that stand immediately before position p of the output
SpacesBefore(p) ==
    LET inked == { j \in 1..(p - 1) : CharAt(out, j) # " " } \cup {0}
    IN  p - 1 - (CHOOSE j \in inked : \A m \in inked : m <= j)

\* C17: the tags of the output are those of the shown nodes in document order,
\* a node before its children and the children in the order of the children
\* sequence; the tags of a node's children lie between the node's open and close
\* tag, each child is indented two spaces more than its parent (four spaces at
\* the top level), and the node's content stands directly after its open tag,
\* before the first child.
C17_DepthFirstInOrder ==
    pc = "done" =>
        /\ TagsMatchNodes
        /\ LET rd == RenderedDeep
           IN  \A i \in 1..Len(rd) :
                  LET r      == rd[i]
                      n      == r.node
                      kids   == ChildPlaces(rd, i)
                      indent == SpacesBefore(r.tag.pos)
                      close  == CloseAt(r)
                  IN  /\ TagIsOf(r.tag, n)
                      /\ indent = 4 + 2 * r.depth
                      /\ \A j \in kids :
                            /\ SpacesBefore(rd[j].tag.pos) = indent + 2
                            /\ r.tag.end < rd[j].tag.pos
                            /\ rd[j].tag.pos < close
                      /\ n.type \notin SELF_CLOSING =>
                            /\ Cardinality(kids) = Len(ShownKids(n))
                            /\ \A j \in kids :
                                  rd[j].node = ShownKids(n)[Cardinality({ k \in kids : k <= j })]
                            /\ n.content # "" =>
                                  LET from == IF OnOneLine(n) THEN r.tag.end + 1
                                              ELSE r.tag.end + 2
                                  IN  /\ SubSeq(out, from, from + Len(n.content) - 1) = n.content
                                      /\ \A j \in kids : rd[j].tag.pos >= from + Len(n.content)

\* a rendered node with content, three children and a grandchild
C17_Witness ==
    /\ pc = "done"
    /\ LET rd == RenderedDeep
       IN  \E i \in 1..Len(rd) :
              /\ rd[i].node.content # ""
              /\ Cardinality(ChildPlaces(rd, i)) = 3
              /\ \E j \in ChildPlaces(rd, i) : ChildPlaces(rd, j) # {}
              /\ \A j \in ChildPlaces(rd, i) :
                    rd[j].node.hasChildren \/ Contains(out, Pair("css-class", rd[j].node.id))

-----------------------------------------------------------------------------
(* Properties of the editor's handlers                                     *)

\* the ids of the nodes of the tree repeat nowhere
IdsDistinct(els) ==
    LET all == AllNodes(els)
    IN  \A i, j \in 1..Len(all) : all[i].node.id = all[j].node.id => i = j

\* C18: no two nodes of the editor's tree have the same id, in every state the
\* handlers reach from the empty tree when every add draws a fresh id.
C18_IdsUnique == IdsDistinct(elements)

\* two nodes after a reorder, a label change, a content update and a toggle
C18_Witness ==
    /\ Len(elements) = 2
    /\ elements[1].id = "n2" /\ elements[2].id = "n1"
    /\ elements[1].label = "Intro"
    /\ elements[2].content = "Edited"
    /\ elements[2].hidden

RECURSIVE Placed(_, _)
\* the nodes of a tree in document order, each with the id of its parent ("" at
\* the top level) and its own fields
Placed(els, parent) ==
    IF Len(els) = 0 THEN << >>
    ELSE LET n == els[1]
         IN  << [ id |-> n.id, parent |-> parent,
                  own |-> [ type |-> n.type, attributes |-> n.attributes,
                            content |-> n.content, hidden |-> n.hidden, label |-> n.label ] ] >>
                \o (IF n.hasChildren THEN Placed(n.children, n.id) ELSE << >>)
                \o Placed(Tail(els), parent)

\* the two trees have the same nodes: as many, with the same ids and own fields
SameNodes(a, b) ==
    LET pa == Placed(a, "")
        pb == Placed(b, "")
    IN  /\ Len(pa) = Len(pb)
        /\ { [id |-> pa[i].id, own |-> pa[i].own] : i \in 1..Len(pa) }
              = { [id |-> pb[i].id, own |-> pb[i].own] : i \in 1..Len(pb) }

\* every node of a but the one with the id has in b the parent it has in a and
\* stands in b before the siblings it stands before in a
OthersKeepPlace(a, b, id) ==
    LET pa == Placed(a, "")
        pb == Placed(b, "")
    IN  \A i \in 1..Len(pa) : pa[i].id # id =>
            /\ \E k \in 1..Len(pb) : pb[k].id = pa[i].id /\ pb[k].parent = pa[i].parent
            /\ \A j \in (i + 1)..Len(pa) :
                  (pa[j].id # id /\ pa[j].parent = pa[i].parent) =>
                      \E k, m \in 1..Len(pb) :
                          k < m /\ pb[k].id = pa[i].id /\ pb[m].id = pa[j].id

\* C19: a call of handleMoveInto or handleReorder, with any two ids, leaves the
\* tree with the nodes it had, none lost and none twice, and leaves every node
\* but the dragged one below the parent it had and in the order it had among
\* its siblings.
C19_MovePreservesTree ==
    [][ (pc = "ready" /\ pc' = "called"
            /\ call'.op \in {"handleMoveInto", "handleReorder"})
          => /\ SameNodes(elements, elements')
             /\ OthersKeepPlace(elements, elements', call'.dragId) ]_vars

\* the types the registry marks as containers
ContainerTypes ==
    { MJML_COMPONENTS[i].type :
        i \in { j \in 1..Len(MJML_COMPONENTS) : MJML_COMPONENTS[j].isContainer } }

SubtreeIds(els, id) ==
    IF findSelected(els, id) = << >> THEN {}
    ELSE IdSet(<< findSelected(els, id)[1] >>)

\* which nodes of a tree have a children field
Shape(els) ==
    LET all == AllNodes(els)
    IN  { [id |-> all[i].node.id, hasChildren |-> all[i].node.hasChildren] : i \in 1..Len(all) }

\* C21: after handleDeleteElement(id) the tree is the tree before the call
\* without the node with the id and the nodes below it, every other node with
\* the parent, the place among its siblings and the fields it had; the
\* selection is null; for an id that is not in the tree the tree is the same.
C21_DeleteRemovesSubtreeOnly ==
    (pc = "called" /\ call.op = "handleDeleteElement") =>
        LET gone == SubtreeIds(call.prev, call.id)
        IN  /\ Placed(elements, "")
                  = SelectSeq(Placed(call.prev, ""), LAMBDA p : p.id \notin gone)
            /\ Shape(elements) = { n \in Shape(call.prev) : n.id \notin gone }
            /\ selectedId = ""
            /\ call.id \notin IdSet(call.prev) => elements = call.prev

\* the column b, which holds c, was deleted from below the section a
C21_Witness ==
    /\ pc = "called" /\ call.op = "handleDeleteElement"
    /\ call.id = "b"
    /\ Len(call.prev) = 3
    /\ IdSet(call.prev) \ IdSet(elements) = {"b", "c"}
    /\ Len(elements) = 3 /\ Len(elements[1].children) = 1

\* C22: after handleToggleHidden(id) the tree has the nodes it had, each below
\* the parent and at the place it had and with the fields it had, but for the
\* hidden flag of the node with the id, which is the opposite; after a second
\* call with the same id the tree serialises as the tree before the two calls.
C22_ToggleOnlyHiddenAndBack ==
    /\ (pc = "called" /\ call.op = "handleToggleHidden") =>
            LET pa == Placed(call.prev, "")
                pb == Placed(elements, "")
            IN  /\ Len(pb) = Len(pa)
                /\ \A i \in 1..Len(pa) :
                      /\ pb[i].id = pa[i].id
                      /\ pb[i].parent = pa[i].parent
                      /\ pb[i].own = [pa[i].own EXCEPT
                                        !.hidden = IF pa[i].id = call.id THEN ~@ ELSE @]
                /\ Shape(elements) = Shape(call.prev)
    /\ (pc = "twice" /\ call.op = "handleToggleHidden") =>
            generateMJML(elements) = generateMJML(call.prev)

\* the hidden text c was shown and hidden again: the output has the one text d
\* of the section and the text e
C22_Witness ==
    /\ pc = "twice" /\ call.op = "handleToggleHidden"
    /\ call.id = "c"
    /\ Len(elements) = 2 /\ Len(elements[1].children) = 2
    /\ elements[1].children[1].hidden
    /\ Cardinality(Occurrences(generateMJML(elements), "<mj-text")) = 2

\* the ids of the children of a parent, in their order; "" is the canvas
SiblingIds(els, parent) ==
    LET under == SelectSeq(Placed(els, ""), LAMBDA p : p.parent = parent)
    IN  [ i \in 1..Len(under) |-> under[i].id ]

\* the parents of a tree: the canvas and the nodes
Parents(els) == {""} \cup IdSet(els)

\* C30: after handleMoveById(id, direction) or handleMoveSelected(direction)
\* the tree has the nodes it had, each with its fields and below the parent it
\* had; the node with the id and its neighbour in the direction have changed
\* places among the children of their parent, and the children of every other
\* parent are in the order they had; the tree is the same when the node is
\* first and moves up, is last and moves down, or the id is not in the tree;
\* for a node that is not first, up and then down gives the tree back.
C30_MoveSwapsNeighbours ==
    LET moves == {"handleMoveById", "handleMoveSelected"}
        pa    == Placed(call.prev, "")
        at    == { i \in 1..Len(pa) : pa[i].id = call.id }
    IN  /\ (pc = "called" /\ call.op \in moves) =>
              /\ SameNodes(call.prev, elements)
              /\ Shape(elements) = Shape(call.prev)
              /\ LET pb == Placed(elements, "")
                 IN  { [id |-> pa[i].id, parent |-> pa[i].parent] : i \in 1..Len(pa) }
                       = { [id |-> pb[i].id, parent |-> pb[i].parent] : i \in 1..Len(pb) }
              /\ IF at = {} THEN elements = call.prev
                 ELSE LET parent   == pa[CHOOSE i \in at : TRUE].parent
                          siblings == SiblingIds(call.prev, parent)
                          index    == CHOOSE i \in 1..Len(siblings) : siblings[i] = call.id
                          swapIdx  == IF call.direction = "up" THEN index - 1 ELSE index + 1
                      IN  IF swapIdx < 1 \/ swapIdx > Len(siblings)
                          THEN elements = call.prev
                          ELSE /\ SiblingIds(elements, parent)
                                     = [siblings EXCEPT ![index] = siblings[swapIdx],
                                                        ![swapIdx] = siblings[index]]
                               /\ \A q \in Parents(call.prev) \ {parent} :
                                     SiblingIds(elements, q) = SiblingIds(call.prev, q)
        /\ (pc = "twice" /\ call.op \in moves) =>
              \A i \in at :
                  SiblingIds(call.prev, pa[i].parent)[1] # call.id => elements = call.prev

\* the text d, second below the section a, was moved up before the column b
\* and down again
C30_Witness ==
    /\ pc = "twice" /\ call.op = "handleMoveById"
    /\ call.id = "d" /\ call.direction = "up"
    /\ Len(call.prev) = 3
    /\ SiblingIds(call.prev, "a") = << "b", "d" >>
    /\ SiblingIds(elements, "a") = << "b", "d" >>
    /\ SiblingIds(elements, "b") = << "c" >>

\* C29: the selection is null or the id of a node of the tree, in every state
\* the editor reaches by its handlers and by loading a campaign, a template or
\* a version.
C29_SelectionInTree == selectedId = "" \/ selectedId \in IdSet(elements)

-----------------------------------------------------------------------------
(* Properties of the serialiser that compare two trees or two declarations *)

RECURSIVE WithoutHidden(_)
\* the tree with every hidden node deleted, and with it the nodes below it
WithoutHidden(els) ==
    LET kept == SelectSeq(els, LAMBDA e : ~e.hidden)
    IN  [ i \in 1..Len(kept) |-> [kept[i] EXCEPT !.children = WithoutHidden(@)] ]

\* the nodes below a top-level body node that are hidden or below a hidden node
HiddenBodyNodes(els) ==
    LET all == AllNodes(els)
    IN  { all[i].node : i \in { j \in 1..Len(all) :
                                  ~Shown(all[j]) /\ all[j].top \notin HEAD_TYPES } }

\* the hidden top-level mj-font nodes
HiddenManualFonts(els) ==
    { els[i] : i \in { j \in 1..Len(els) : els[j].type = "mj-font" /\ els[j].hidden } }

\* the names of the baseline fonts, in lower case
BaselineNames ==
    { ToLowerCase(DEFAULT_GOOGLE_FONTS[i].name) : i \in 1..Len(DEFAULT_GOOGLE_FONTS) }

\* C26: the output for a tree is the output for the tree without its hidden
\* nodes and what is below them; a font that only hidden nodes use, and that is
\* neither declared by a shown mj-font nor a baseline font, is declared nowhere
\* in the output; a hidden mj-font has no tag in the output, and a font that it
\* names and a shown body node uses is declared by a synthesized declaration
\* when no shown mj-font stands in the tree.
C26_HiddenContributesNothing ==
    pc = "done" =>
        /\ out = generateMJML(WithoutHidden(elements))
        /\ \A h \in HiddenBodyNodes(elements) :
              LET P == ToLowerCase(PrimaryName(FontFamilyOf(h)))
              IN  ( /\ P # "" /\ P \notin BaselineNames
                    /\ \A b \in ShownBodyNodes(elements) :
                          ToLowerCase(PrimaryName(FontFamilyOf(b))) # P
                    /\ \A m \in ShownManualFonts(elements) :
                          ToLowerCase(FontNameOf(m)) # P )
                  => DeclarationsFor(P) = {}
        /\ \A m \in HiddenManualFonts(elements) :
              /\ Cardinality(DeclarationsFor(FontNameOf(m)))
                    <= Cardinality({ f \in ShownManualFonts(elements) :
                                        ToLowerCase(FontNameOf(f)) = ToLowerCase(FontNameOf(m)) })
                       + Cardinality({ i \in 1..Len(autoFonts) :
                                        ToLowerCase(DeclaredName(autoFonts[i]))
                                          = ToLowerCase(FontNameOf(m)) })
              /\ \A b \in ShownBodyNodes(elements) :
                    LET P == PrimaryName(FontFamilyOf(b))
                    IN  ( /\ P # "" /\ ToLowerCase(P) = ToLowerCase(FontNameOf(m))
                          /\ ToLowerCase(P) \notin SYSTEM_FONTS
                          /\ ToLowerCase(P) \notin BaselineNames
                          /\ ShownManualFonts(elements) = {} )
                        => \E i \in 1..Len(autoFonts) :
                              DeclaredName(autoFonts[i]) = P

\* a hidden mj-font names Open Sans, the shown text b1 uses Open Sans: the one
\* declaration of it in the output is a synthesized one
C26_Witness ==
    /\ pc = "done"
    /\ \E m \in HiddenManualFonts(elements) : FontNameOf(m) = "Open Sans"
    /\ \E b \in ShownBodyNodes(elements) : PrimaryName(FontFamilyOf(b)) = "Open Sans"
    /\ Cardinality(DeclarationsFor("Open Sans")) = 1
    /\ \E i \in 1..Len(autoFonts) : DeclaredName(autoFonts[i]) = "Open Sans"
    /\ out = generateMJML(WithoutHidden(elements))
    /\ WithoutHidden(elements) # elements

\* C27: no two synthesized font declarations of the output, the baseline ones
\* among them, have names that are equal when letter case is ignored.
C27_NoSynthesizedDuplicates ==
    pc = "done" =>
        \A i, j \in 1..Len(autoFonts) :
            ToLowerCase(DeclaredName(autoFonts[i])) = ToLowerCase(DeclaredName(autoFonts[j]))
                => i = j

\* C28: when a shown top-level mj-font is rendered with name="N", N being its
\* own name or else the registry's default, no synthesized declaration of the
\* output has a name equal to N when letter case is ignored.
C28_ManualNameNeverSynthesized ==
    pc = "done" =>
        \A m \in ShownManualFonts(elements) :
            LET N == EffectiveValue(m, "name")
            IN  (N # "" /\ Contains(out, "<mj-font" \o Pair("name", N))) =>
                  \A i \in 1..Len(autoFonts) :
                      ToLowerCase(DeclaredName(autoFonts[i])) # ToLowerCase(N)

-----------------------------------------------------------------------------
(* Properties of the preview panel, the send button and the endpoint       *)

\* the requests of the auto-compile effect that are in flight and not aborted
LiveEffect == { r \in requests : r.by = "effect" /\ ~r.aborted }

\* the step in which the fetch r of the auto-compile effect settles
EffectSettles(r) ==
    /\ r \in requests /\ r.by = "effect"
    /\ requests' = requests \ {r}
    /\ elements' = elements /\ tab' = tab /\ exported' = exported

\* C23: a request of the auto-compile effect that is in flight and not aborted
\* is the only one, and is for the markup and a tab that are current (a change
\* of either aborts it); the response to an aborted request leaves the compile
\* state as it is; a success set by a response of the effect holds the HTML of
\* the markup requested last, which is the current one.
C23_NoSupersededResult ==
    /\ [](/\ Cardinality(LiveEffect) <= 1
          /\ \A r \in LiveEffect : r.mjml = out /\ tab # "mjml")
    /\ [][ \A r \in requests : EffectSettles(r) =>
              /\ r.aborted => compile' = compile
              /\ (~r.aborted /\ compile'.status = "success") =>
                    compile'.html = mjmlCompile(r.mjml) ]_vars

\* the response, with HTML, to an aborted request has arrived while the request
\* that superseded it is in flight: the state is still loading
C23_Witness ==
    /\ call # << >> /\ call.by = "effect" /\ call.aborted /\ call.hasHtml
    /\ Cardinality(LiveEffect) = 1
    /\ compile.status = "loading"

\* C24: the HTML that handleExportHtml wrote to the clipboard from a compile
\* state that was success is the HTML of the markup that was current when it
\* was written.
C24_ExportIsFresh ==
    (exported # << >> /\ exported.cached) => exported.html = mjmlCompile(exported.mjml)

\* the step in which the fetch r of handleOpenSendEmail settles
SendSettles(r) ==
    /\ r \in requests /\ r.by = "send"
    /\ requests' = requests \ {r}
    /\ elements' = elements

\* the response recorded in c is not a success: not OK, or without html
NoHtml(c) == c.status < 200 \/ c.status > 299 \/ ~c.hasHtml

\* C25: the endpoint answers 405 with an error to a request that is not a POST,
\* 400 with an error to a blank markup, 500 with an error when the compiler
\* throws, and HTML only with 200; a response to the auto-compile effect that
\* is not OK or has no html puts the panel in the error state; such a response
\* to handleOpenSendEmail leaves the send modal and its HTML as they were; any
\* response to handleOpenSendEmail resets isSendCompiling.
C25_CompilerFailureIsAnError ==
    /\ [](call # << >> =>
            /\ call.method # "POST" => (call.status = 405 /\ call.error # "")
            /\ (call.method = "POST" /\ call.blank) =>
                    (call.status = 400 /\ call.error # "")
            /\ (call.method = "POST" /\ ~call.blank /\ call.compiler = "throws") =>
                    (call.status = 500 /\ call.error # "")
            /\ call.status # 200 => ~call.hasHtml)
    /\ [][ \A r \in requests :
              /\ (EffectSettles(r) /\ ~r.aborted /\ NoHtml(call')) =>
                    (compile'.status = "error" /\ compile'.message # "")
              /\ SendSettles(r) =>
                    /\ ~isSendCompiling'
                    /\ NoHtml(call') =>
                          (showSendEmail' = showSendEmail /\ sendHtml' = sendHtml) ]_vars

\* the compiler threw on the request of the send button, after it had thrown on
\* the request of the panel: the panel shows the error, the modal is closed
\* and the button is released
C25_Witness ==
    /\ call # << >> /\ call.by = "send" /\ call.status = 500
    /\ compile.status = "error" /\ compile.message = "Compiler failed"
    /\ ~showSendEmail /\ sendHtml = "" /\ ~isSendCompiling

====
